---- MODULE Spec2Model ----
(***************************************************************************)
(* A model of browser-peers: the Peer request/response correlator          *)
(* (src/src/peer.js) running over an abstract, unordered transport.        *)
(*                                                                         *)
(* Conventions.                                                            *)
(*  - A JavaScript value that may be `undefined` is an option: <<>> is     *)
(*    undefined (or an absent field), <<x>> is the value x.                *)
(*  - A handler descriptor is the sequence of its tokens, "." being the    *)
(*    separator token: "h.bar" is <<"h", ".", "bar">>.                     *)
(*  - JavaScript is single threaded.  One action is one task of the event  *)
(*    loop (an API call by the application, the delivery of one envelope,  *)
(*    one timer callback, the settling of one handler promise) together    *)
(*    with the promise continuations (microtasks) that it makes runnable,  *)
(*    which the event loop runs before any other task.                     *)
(***************************************************************************)
EXTENDS Integers, Sequences, FiniteSets, TLC

\* ------------------------------------------------------------------------
\* Bounds and input sets

\* Largest number of makeRequest calls (ready checks included) per peer.
MaxCalls == 2
\* Largest number of envelopes the transport delivers a second time.
MaxDup == 1
\* Largest number of windows that are unloaded.
MaxDepartures == 1
\* Largest number of makeRequest calls (ready checks included) a peer has made
\* when its application calls broadcastRequest once more.
MaxBroadcastCalls == 2
\* lookUpPeerName, makeWindowRequest, sendWindowEvent and groupcastEvent calls
\* of the application, over all windows
MaxWindowCalls == 2
\* sendWindowEvent and groupcastEvent calls over ExtensionTransport
MaxExtCalls == 1
\* windows in the large group
MaxGroupSize == 12
\* checkExtensionPresence calls
MaxChecks == 2
\* times the extension is uninstalled
MaxUninstalls == 2
\* requests P and B make through the relay, together
MaxRelayCalls == 3
\* calls of join() on the observing WindowPeer
MaxJoins == 3
\* hellos the observing WindowPeer receives from its transport
MaxHellos == 2
\* calls of makeRequest on the peer whose transport answers or fails at once
MaxSendCalls == 2
MaxMemberEvents == 5
MaxPorts == 3
MaxListeners == 3

Peers == {"A", "B"}
\* The peers whose application code issues requests.
Requesters == {"B"}
\* The peers whose application code registers handlers and declares readiness.
Servers == {"A"}
\* Argument objects passed to makeRequest.
Args == {"x1", "x2"}
\* Timeouts passed to makeRequest, in ms.
Timeouts == {0, 1000}
\* Messages of the errors with which handlers fail.
Messages == {"", "boom"}
\* Descriptors passed to makeRequest.
Descrips == {<<"h">>, <<"h", ".", "bar">>}

TimeoutMessage == "Peer request timed out."

\* The windows of the group; the name BroadcastChannelTransport gives the
\* transport of a window is the window's name here.
Windows == {"w1", "w2", "w3"}
\* A birthday, `${Date.now()}:${Math.random()}`, is a string: the sequence of
\* its code units.
\* channelName, which BroadcastChannelTransport uses as windowGroupId.
ChannelName == "Window-Peer-Protocol-Channel"

\* ------------------------------------------------------------------------
\* Handler values: what can be stored in the registry

Undef == [t |-> "undef", beh |-> "", m |-> ""]
\* args => args
FnEcho == [t |-> "fn", beh |-> "echo", m |-> ""]
\* args => a promise that later resolves with args
FnEchoAsync == [t |-> "fn", beh |-> "echoAsync", m |-> ""]
\* args => { throw new Error(m) }
FnThrow(m) == [t |-> "fn", beh |-> "throw", m |-> m]
\* args => a promise that later rejects with new Error(m)
FnReject(m) == [t |-> "fn", beh |-> "reject", m |-> m]
\* this.ready.bind(this)
FnReady == [t |-> "fn", beh |-> "ready", m |-> ""]
\* a handler object { bar: args => args }
ObjBar == [t |-> "obj", beh |-> "bar", m |-> ""]

\* function (args) { return this.tag }
FnThis == [t |-> "fn", beh |-> "this", m |-> ""]
\* the number 0
Zero == [t |-> "num", beh |-> "", m |-> "0"]
\* a non-empty string s
Str(s) == [t |-> "str", beh |-> "", m |-> s]
\* a handler object { bar: 0 }
ObjZeroBar == [t |-> "obj", beh |-> "zerobar", m |-> ""]
\* { tag: 'foo', bar: function (args) { return this.tag } }
ObjInner == [t |-> "obj", beh |-> "inner", m |-> "foo"]
\* { tag: 'obj', bar: function (args) { return this.tag }, foo: ObjInner }
ObjFoo == [t |-> "obj", beh |-> "foo", m |-> "obj"]

\* What application code passes to addHandler.
UserHandlers ==
    {FnEcho, FnEchoAsync, FnThrow("boom"), ObjBar} \cup {FnReject(m) : m \in Messages}
\* The names application code passes to addHandler.
UserNames == {"h", "ready"}
\* Values registered when lookupHandler is exercised by itself.
RegistryValues == {FnEcho, FnThis, ObjBar, ObjZeroBar, ObjFoo, Zero}
\* Descriptors passed to callHandler.
LookupDescrips ==
    {<<"h">>, <<"g">>, <<"h", ".", "bar">>, <<"h", ".", "tag">>,
     <<"h", ".", "foo", ".", "bar">>, <<"h", ".", "bar", ".", "baz">>}

\* JavaScript truthiness of a registry value (`if (handler)`, `!handler`).
HandlerTruthy(h) == h.t # "undef" /\ h # Zero

\* handler[part]
GetAttr(h, part) ==
    IF h.t # "obj" THEN Undef
    ELSE IF h.beh = "bar" /\ part = "bar" THEN FnEcho
    ELSE IF h.beh = "zerobar" /\ part = "bar" THEN Zero
    ELSE IF h.beh = "foo" /\ part = "foo" THEN ObjInner
    ELSE IF h.beh \in {"foo", "inner"} /\ part = "bar" THEN FnThis
    ELSE IF h.beh \in {"foo", "inner"} /\ part = "tag" THEN Str(h.m)
    ELSE Undef

\* Map.prototype.get
MapGet(map, key) == IF key \in DOMAIN map THEN map[key] ELSE Undef

\* Map.prototype.set
MapSet(map, key, val) == (key :> val) @@ map

\* Map.prototype.delete, on a Map kept as a function
MapDelete(map, key) == [k \in DOMAIN map \ {key} |-> map[k]]

\* ------------------------------------------------------------------------
\* Strings

RECURSIVE JoinTokens(_)
\* The string a descriptor's tokens spell.
JoinTokens(d) == IF d = <<>> THEN "" ELSE Head(d) \o JoinTokens(Tail(d))

RECURSIVE SplitDots(_, _)
\* descrip.split('.'), cur being the segment under construction.
SplitDots(d, cur) ==
    IF d = <<>> THEN <<cur>>
    ELSE IF Head(d) = "." THEN <<cur>> \o SplitDots(Tail(d), "")
    ELSE SplitDots(Tail(d), cur \o Head(d))

\* JavaScript truthiness of an optional string (`if (wrapper.rejection_reason)`).
StringTruthy(s) == s # <<>> /\ s[1] # ""

\* ------------------------------------------------------------------------
\* Envelopes.  `to` is the peerName given to postMessageAsPeer.

RequestWrapper(to, from, seqNum, descrip, args) ==
    [type |-> "request", to |-> to, from |-> from, seqNum |-> seqNum,
     handlerDescrip |-> descrip, args |-> args,
     result |-> <<>>, rejection_reason |-> <<>>]

\* A response envelope that leaves the result out.
ResponseWrapper_NoResult(to, from, seqNum, result) ==
    [type |-> "response", to |-> to, from |-> from, seqNum |-> seqNum,
     handlerDescrip |-> <<>>, args |-> "",
     result |-> <<>>, rejection_reason |-> <<>>]

\* returnResponse: the envelope it posts.
ResponseWrapper(to, from, seqNum, result) ==
    [type |-> "response", to |-> to, from |-> from, seqNum |-> seqNum,
     handlerDescrip |-> <<>>, args |-> "",
     result |-> result, rejection_reason |-> <<>>]

\* returnRejection: the envelope it posts.
RejectionWrapper(to, from, seqNum, message) ==
    [type |-> "response", to |-> to, from |-> from, seqNum |-> seqNum,
     handlerDescrip |-> <<>>, args |-> "",
     result |-> <<>>, rejection_reason |-> <<message>>]

VARIABLES
    handlers,           \* handlers[p]: Map name -> handler
    builtInHandlers,    \* builtInHandlers[p]: Map name -> handler
    nextSeqNum,         \* nextSeqNum[p]
    requestsBySeqNum,   \* requestsBySeqNum[p]: Map seqNum -> pending entry
    ready,              \* ready[p]: readyPromise of p is resolved
    calls,              \* calls[p]: the makeRequest calls of p, in call order
    timers,             \* timers[p]: the armed timers of p
    running,            \* handler invocations whose promise is not settled
    net,                \* envelopes handed to the transport, not yet delivered
    dups,               \* number of second deliveries so far
    sent,               \* every response envelope ever handed to the transport
    handled,            \* every run of handleRequest and the handler it handled
    escaped,            \* handleMessage calls that threw to the transport
    lastCall            \* the most recent registry call and what it threw

VARIABLES
    lastLookup,         \* the most recent callHandler call, the registry then, the outcome
    peerNames,          \* peerNames[p]: the array getAllPeerNames() returns on p
    lastApi             \* the most recent makeRequest or broadcastRequest call of the
                        \* application: its options and the makeRequest calls it made

\* The window group: one WindowPeer per window, over BroadcastChannelTransport.
VARIABLES
    birthday,                   \* birthday[m]: the birthday of the WindowPeer of m
    wstatus,                    \* wstatus[m]: "new", "enabled" (joined) or "departed"
    windowGroupId,              \* windowGroupId[m], <<>> being null
    peerNamesToBirthdays,       \* peerNamesToBirthdays[m]: Map, as its entries in
                                \* insertion order
    windowNumbersToPeerNames,   \* windowNumbersToPeerNames[m]: Map number -> name
    windowNumber,               \* windowNumber[m]
    channel,                    \* messages posted on the BroadcastChannel, one per
                                \* receiving window, not yet received
    overtaken,                  \* a window has received the observeDeparture of a
                                \* window before a hello or welcome that window
                                \* had posted for it earlier
    lastEvent                   \* lastEvent[m]: the updateMapping event last dispatched
                                \* on m and what its listener read from m

\* Each WindowPeer as a Peer, and the events of the application.
VARIABLES
    windowCalls,                \* windowCalls[m]: the makeRequest calls of the WindowPeer
    windowNextSeqNum,           \* windowNextSeqNum[m]: its nextSeqNum
    windowRequests,             \* windowRequests[m]: its requestsBySeqNum
    dispatched,                 \* dispatched[m]: the events genericWindowEvent has
                                \* dispatched to the listeners of m
    lastWindowCall              \* the most recent call of lookUpPeerName,
                                \* makeWindowRequest, sendWindowEvent or groupcastEvent

\* The window group over ExtensionTransport: the PsCsPeer of each transport and
\* the WindowGroupServer in the background script.
VARIABLES
    extCalls,                   \* extCalls[m]: the makeRequest calls of ext_client of m
    extNextSeqNum,              \* extNextSeqNum[m]: its nextSeqNum
    extRequests,                \* extRequests[m]: its requestsBySeqNum
    serverCalls,                \* the makeRequest calls of the server
    serverNextSeqNum,           \* its nextSeqNum
    serverRequests,             \* its requestsBySeqNum
    portsByPeerName,            \* the keys of its portsByPeerName, in insertion order
    wire                        \* the envelopes under way between a page and the
                                \* background script

\* A WindowPeer in a group of many windows.
VARIABLES
    groupNumbers,               \* its windowNumbersToPeerNames
    lastNumbers                 \* the most recent getAllWindowNumbers call: the
                                \* mapping then and the array returned

\* A request that fails with one of the serializable errors of errors.js.
VARIABLES
    thrown,                     \* the error the handler rejected with
    rejectionReason,            \* rejection_reason of the response under way, if any
    settlement                  \* how handleResponse settled the request, and with
                                \* reconstituteErrors set how

\* A host page, the content scripts injected into it and its ExtensionClient.
VARIABLES
    extVersAttr,                \* the attribute ext_vers_attr of the signalling
                                \* element, <<>> when it has none
    installed,                  \* the extension is installed
    browserKind,                \* "chrome" or "firefox", once an uninstall has shown it
    uninstalls,                 \* the number of times the extension was uninstalled
    server,                     \* server[s]: whether the ExtensionServer of content
                                \* script s listens and whether its context is valid
    pageMessages,               \* the wrappers posted on the window, not yet dispatched
    clientNextSeqNum,           \* nextSeqNum of the ExtensionClient
    clientRequests,             \* its requestsBySeqNum: seqNum -> timeout of the timer
    checks                      \* the checkExtensionPresence calls by seqNum: their
                                \* options, how they settled, the attribute then

\* A page-script peer, a background peer and the PsBgsRelay between them.
VARIABLES
    relayCalls,                 \* relayCalls[r]: the makeRequest calls of peer r
    relayNextSeqNum,            \* relayNextSeqNum[r]: its nextSeqNum
    relayRequests,              \* relayRequests[r]: its requestsBySeqNum
    forwarded,                  \* forwarded[r][i]: for the i-th call of a peer of the
                                \* relay, the peerName and seqNum of the request it
                                \* forwards
    pageLink,                   \* wrappers posted on the window, not yet handled
    portLink                    \* wrappers posted on the port, not yet handled

\* A WindowPeer observing the hellos of its group, over any transport.
VARIABLES
    obsTransport,               \* the transport given to enable(): "bc", "socket",
                                \* "ext", or "none" before enable()
    obsConnected,               \* transport.connected
    obsConnections,             \* the connections the socket has made
    observer,                   \* the fields of the WindowPeer
    helloListeners,             \* the handlers the transport runs for a hello event
    obsJoins,                   \* the calls of join()
    lastHello                   \* the last hello handled: its name, the name of the
                                \* observer, the welcomes emitted while handling it;
                                \* n counts the hellos, observed those not its own
                                \* join handed it

\* One peer whose transport may answer or fail inside postMessageAsPeer.
VARIABLES
    sendCalls,                  \* the makeRequest calls of the peer
    sendNextSeqNum,             \* its nextSeqNum
    sendRequests,               \* its requestsBySeqNum
    sendTimers,                 \* its armed timers
    sendWire,                   \* the envelopes the transport carries
    sendHow,                    \* sendHow[i]: what postMessageAsPeer did with the
                                \* request of the i-th call
    settledBy                   \* settledBy[i]: the from field of the response that
                                \* settled the i-th call

\* One WindowPeer on an ExtensionTransport, the WindowGroupServer and the
\* port between them.
VARIABLES
    member,                     \* the WindowPeer
    groupPorts,                 \* the names the server has a port for
    memberInbox,                \* the requests the server has posted on the port
                                \* of the WindowPeer, oldest first
    memberEvents,               \* how many joins and departures there have been
    lastChange                  \* the last request handled, and the maps before it

\* One CsBgsPeer and the ports of its connections.
VARIABLES
    csPorts,                    \* csPorts[k]: the k-th port that was saved, the peer
                                \* it connects to and its status
    csPortsByPeerName,          \* portsByPeerName of the peer: name to port
    lastPost                    \* the last call of postMessageAsPeer

\* The listeners of one event type of a Peer or a Listenable, and a dispatch.
VARIABLES
    listenersOfType,            \* the array this.listeners[event.type]
    dispatching                 \* the dispatch under way or finished

\* The variables the correlator's actions leave alone.
lookupVars == <<lastLookup>>
broadcastVars == <<peerNames, lastApi>>
windowVars == <<birthday, wstatus, windowGroupId, peerNamesToBirthdays,
                windowNumbersToPeerNames, windowNumber, channel, lastEvent, overtaken>>
windowPeerVars == <<windowCalls, windowNextSeqNum, windowRequests, dispatched>>
windowApiVars == <<windowPeerVars, lastWindowCall>>
extVars == <<extCalls, extNextSeqNum, extRequests>>
serverVars == <<serverCalls, serverNextSeqNum, serverRequests, portsByPeerName>>
groupServerVars == <<extVars, serverVars, wire>>
\* The variables the actions of the correlator, of callHandler and of
\* broadcastRequest leave alone.
numbersVars == <<groupNumbers, lastNumbers>>
errorVars == <<thrown, rejectionReason, settlement>>
pageVars == <<extVersAttr, installed, browserKind, uninstalls, server, pageMessages,
              clientNextSeqNum, clientRequests, checks>>
relayVars == <<relayCalls, relayNextSeqNum, relayRequests, forwarded, pageLink, portLink>>
helloVars == <<obsTransport, obsConnected, obsConnections, observer, helloListeners,
               obsJoins, lastHello>>
sendVars == <<sendCalls, sendNextSeqNum, sendRequests, sendTimers, sendWire, sendHow,
              settledBy>>
memberVars == <<member, groupPorts, memberInbox, memberEvents, lastChange>>
portVars == <<csPorts, csPortsByPeerName, lastPost>>
dispatchVars == <<listenersOfType, dispatching>>
moreVars == <<sendVars, memberVars, portVars, dispatchVars>>
auxVars == <<numbersVars, errorVars, pageVars, relayVars, helloVars, moreVars>>

\* The variables the actions of the observing WindowPeer leave alone, besides
\* coreVars.
notHelloVars == <<numbersVars, errorVars, pageVars, relayVars, moreVars>>

\* The variables the actions of the relay leave alone, besides coreVars.
notRelayVars == <<numbersVars, errorVars, pageVars, helloVars, moreVars>>

\* The variables the actions on the host page leave alone, besides coreVars.
notPageVars == <<numbersVars, errorVars, relayVars, helloVars, moreVars>>
laterVars == <<windowVars, windowApiVars, groupServerVars, auxVars>>
otherVars == <<lookupVars, broadcastVars, laterVars>>

\* The variables of the correlator.
peerVars == <<handlers, builtInHandlers, nextSeqNum, requestsBySeqNum, ready, calls,
              timers, running, net, dups, sent, handled, escaped, lastCall>>

vars == <<handlers, builtInHandlers, nextSeqNum, requestsBySeqNum, ready, calls,
          timers, running, net, dups, sent, handled, escaped, lastCall, otherVars>>

\* The variables the actions of the window group leave alone.
nonWindowVars == <<peerVars, lookupVars, broadcastVars, groupServerVars, auxVars>>

\* The variables the actions of the window group over ExtensionTransport
\* leave alone.
nonGroupVars == <<peerVars, lookupVars, broadcastVars, auxVars>>

\* The correlator and the window groups.
coreVars == <<peerVars, lookupVars, broadcastVars, windowVars, windowApiVars,
              groupServerVars>>

\* The variables of every subsystem but the later ones.
olderVars == <<coreVars, numbersVars, errorVars, pageVars, relayVars, helloVars>>

\* The variables the actions of the sending peer leave alone, besides its own.
notSendVars == <<olderVars, memberVars, portVars, dispatchVars>>

\* The variables the actions of the group member leave alone.
notMemberVars == <<olderVars, sendVars, portVars, dispatchVars>>

\* The variables the actions on the ports of the CsBgsPeer leave alone.
notPortVars == <<olderVars, sendVars, memberVars, dispatchVars>>

\* The variables the actions on the listeners leave alone.
notDispatchVars == <<olderVars, sendVars, memberVars, portVars>>


\* ------------------------------------------------------------------------
\* Handler registry

\* addHandler without the check of the reserved names.
AddHandlerResult_NoCheck(hs, builtIns, name, handler) ==
    [threw |-> <<>>, handlers |-> MapSet(hs, name, handler)]

\* addHandler: the error it throws, if any, and the registry it leaves.
AddHandlerResult(hs, builtIns, name, handler) ==
    IF name \in DOMAIN builtIns
    THEN [threw |-> <<"Cannot register handler under reserved name: " \o name>>,
          handlers |-> hs]
    ELSE [threw |-> <<>>, handlers |-> MapSet(hs, name, handler)]

RECURSIVE WalkParts_KeepsFirstPrev(_, _, _, _)
\* The loop of lookupHandler setting prev at the first attribute access only.
WalkParts_KeepsFirstPrev(parts, i, handler, prev) ==
    IF i > Len(parts) THEN [handler |-> handler, prev |-> prev]
    ELSE IF HandlerTruthy(handler)
         THEN WalkParts_KeepsFirstPrev(parts, i + 1, GetAttr(handler, parts[i]),
                                       IF prev = Undef THEN handler ELSE prev)
         ELSE [handler |-> handler, prev |-> prev]

RECURSIVE WalkParts(_, _, _, _)
\* The for loop of lookupHandler, from the i-th part on.
WalkParts(parts, i, handler, prev) ==
    IF i > Len(parts) THEN [handler |-> handler, prev |-> prev]
    ELSE IF HandlerTruthy(handler)
         THEN WalkParts(parts, i + 1, GetAttr(handler, parts[i]), handler)
         ELSE [handler |-> handler, prev |-> prev]

\* lookupHandler without the `!handler` test.
LookupHandler_NoUnknown(hs, descrip) ==
    LET parts == SplitDots(descrip, "")
        w == WalkParts(parts, 2, MapGet(hs, parts[1]), Undef)
    IN  IF w.handler.t # "fn"
        THEN [threw |-> <<"Handler \"" \o JoinTokens(descrip) \o "\" is not a function">>,
              handler |-> Undef, this |-> Undef]
        ELSE [threw |-> <<>>, handler |-> w.handler, this |-> w.prev]

\* lookupHandler: the error it throws, if any, else the function and the
\* object it is bound to (Undef when it is not bound).
LookupHandler(hs, descrip) ==
    LET parts == SplitDots(descrip, "")
        w == WalkParts(parts, 2, MapGet(hs, parts[1]), Undef)
    IN  IF ~HandlerTruthy(w.handler)
        THEN [threw |-> <<"Unknown handler: " \o JoinTokens(descrip)>>,
              handler |-> Undef, this |-> Undef]
        ELSE IF w.handler.t # "fn"
        THEN [threw |-> <<"Handler \"" \o JoinTokens(descrip) \o "\" is not a function">>,
              handler |-> Undef, this |-> Undef]
        ELSE [threw |-> <<>>, handler |-> w.handler, this |-> w.prev]

\* handler(args) for a function value and the receiver it is bound to (Undef
\* when it is not bound: `this` is undefined in module code): the error it
\* throws, if any, else the value it returns.
Apply(handler, this, args) ==
    CASE handler.beh = "echo" -> [threw |-> <<>>, val |-> <<args>>]
      [] handler.beh = "throw" -> [threw |-> <<handler.m>>, val |-> <<>>]
      [] handler.beh = "this" ->
            IF this.t = "obj" THEN [threw |-> <<>>, val |-> <<this.m>>]
            ELSE [threw |-> <<"TypeError">>, val |-> <<>>]
      [] OTHER -> [threw |-> <<>>, val |-> <<"promise">>]

\* callHandler(handlerDescrip, args): what lookupHandler threw or returned,
\* and what the call of the function returned threw or returned.
CallHandlerResult(hs, descrip, args) ==
    LET lk == LookupHandler(hs, descrip)
        r == Apply(lk.handler, lk.this, args)
    IN  IF lk.threw # <<>>
        THEN [threw |-> lk.threw, handler |-> Undef, this |-> Undef,
              callThrew |-> <<>>, ret |-> <<>>]
        ELSE [threw |-> <<>>, handler |-> lk.handler, this |-> lk.this,
              callThrew |-> r.threw, ret |-> r.val]

\* checkHandlingError of the base class, on the message of the error.
CheckHandlingError(message) == message

\* ------------------------------------------------------------------------
\* Making requests.  The state of one peer during a task is a record
\* [calls, reqs, timers, out]: its makeRequest calls, its requestsBySeqNum,
\* its armed timers and the envelopes it has handed to postMessageAsPeer.

\* takeNextSeqNum without the increment.
TakeNextSeqNum_NoIncrement(n) == [seqNum |-> n, next |-> n]

\* takeNextSeqNum: the number returned and the new value of nextSeqNum.
TakeNextSeqNum(n) == [seqNum |-> n, next |-> n + 1]

NoOutcome == [kind |-> "none", val |-> <<>>]

\* The record of the makeRequest call that took seqNum; parent is the index
\* of the call that made it as its ready check (0: made by the application).
NewCall(seqNum, to, descrip, args, doReadyCheck, timeout, parent) ==
    [seqNum |-> seqNum, to |-> to, descrip |-> descrip, args |-> args,
     doReadyCheck |-> doReadyCheck, timeout |-> timeout, parent |-> parent,
     stage |-> "checking", nResolve |-> 0, nReject |-> 0, outcome |-> NoOutcome]

\* consumeRequestData without the delete.
ConsumeRequestData_KeepsEntry(reqs, tms, seqNum) ==
    LET data == IF seqNum \in DOMAIN reqs THEN <<reqs[seqNum]>> ELSE <<>>
    IN  [data |-> data,
         timers |-> IF data # <<>>
                    THEN {t \in tms : <<t.id>> # data[1].timeoutHandle}
                    ELSE tms,
         reqs |-> reqs]

\* consumeRequestData: the entry found (an option), and the table and the
\* timers it leaves.
ConsumeRequestData(reqs, tms, seqNum) ==
    LET data == IF seqNum \in DOMAIN reqs THEN <<reqs[seqNum]>> ELSE <<>>
    IN  [data |-> data,
         timers |-> IF data # <<>>
                    THEN {t \in tms : <<t.id>> # data[1].timeoutHandle}
                    ELSE tms,
         reqs |-> [k \in DOMAIN reqs \ {seqNum} |-> reqs[k]]]

\* The callback makeRequest passes to check.then, for the i-th call of p:
\* arm the timer, store the pending entry, post the request.
StartRequest(S, p, i) ==
    LET c == S.calls[i]
        timeoutHandle == IF c.timeout < 1 THEN <<>> ELSE <<i>>
    IN  [calls |-> [S.calls EXCEPT ![i].stage = "pending"],
         reqs |-> MapSet(S.reqs, c.seqNum,
                         [resolve |-> i, reject |-> i, timeoutHandle |-> timeoutHandle]),
         timers |-> IF timeoutHandle = <<>> THEN S.timers
                    ELSE S.timers \cup {[id |-> i, seqNum |-> c.seqNum]},
         out |-> S.out \cup {RequestWrapper(c.to, p, c.seqNum, c.descrip, c.args)}]

\* The resolve (kind "resolved") or reject (kind "rejected") function of a
\* call's promise is invoked: a promise keeps its first outcome.
Invoke(c, kind, val) ==
    [c EXCEPT !.stage = "settled",
              !.nResolve = IF kind = "resolved" THEN @ + 1 ELSE @,
              !.nReject = IF kind = "rejected" THEN @ + 1 ELSE @,
              !.outcome = IF @.kind = "none" THEN [kind |-> kind, val |-> val] ELSE @]

\* resolve or reject of the i-th call of p is invoked.  When the call is the
\* ready check of another call and this settles it, that call goes on:
\* check.then runs its callback, or passes the rejection on.
Settle(S, p, i, kind, val) ==
    LET c == S.calls[i]
        S1 == [S EXCEPT !.calls[i] = Invoke(c, kind, val)]
    IN  IF c.outcome.kind # "none" \/ c.parent = 0 THEN S1
        ELSE IF kind = "resolved" THEN StartRequest(S1, p, c.parent)
        ELSE [S1 EXCEPT !.calls[c.parent].stage = "settled",
                        !.calls[c.parent].outcome = [kind |-> kind, val |-> val]]

\* makeRequest(to, descrip, args, {doReadyCheck, timeout}) on peer p.
MakeRequestResult(S, p, n, to, descrip, args, doReadyCheck, timeout) ==
    LET i == Len(S.calls) + 1
        t1 == TakeNextSeqNum(n)
        t2 == TakeNextSeqNum(t1.next)
        main == NewCall(t1.seqNum, to, descrip, args, doReadyCheck, timeout, 0)
        check == NewCall(t2.seqNum, to, <<"ready">>, "{}", FALSE, 0, i)
    IN  IF doReadyCheck
        THEN [next |-> t2.next,
              S |-> StartRequest([S EXCEPT !.calls = @ \o <<main, check>>], p, i + 1)]
        ELSE [next |-> t1.next,
              S |-> StartRequest([S EXCEPT !.calls = Append(@, main)], p, i)]

\* The options object of makeRequest (doReadyCheck, timeout) or of
\* broadcastRequest (filter, skipReadyChecks).
Options(doReadyCheck, timeout, filter, skipReadyChecks) ==
    [doReadyCheck |-> doReadyCheck, timeout |-> timeout,
     filter |-> filter, skipReadyChecks |-> skipReadyChecks]

\* makeRequest posting the request at once, whatever the ready check does.
MakeRequestOptions_PostsAtOnce(S, p, n, to, descrip, args, options) ==
    LET doReadyCheck == IF options.doReadyCheck # <<>>
                        THEN options.doReadyCheck[1] ELSE FALSE
        timeout == IF options.timeout # <<>> THEN options.timeout[1] ELSE 0
        r == MakeRequestResult(S, p, n, to, descrip, args, doReadyCheck, timeout)
    IN  IF doReadyCheck
        THEN [r EXCEPT !.S.out = @ \cup
                 {RequestWrapper(to, p, TakeNextSeqNum(n).seqNum, descrip, args)}]
        ELSE r

\* makeRequest(to, descrip, args, options) on peer p; a key that options
\* lacks is <<>> (undefined is the object without keys).
MakeRequestOptions(S, p, n, to, descrip, args, options) ==
    LET doReadyCheck == IF options.doReadyCheck # <<>>
                        THEN options.doReadyCheck[1] ELSE FALSE
        timeout == IF options.timeout # <<>> THEN options.timeout[1] ELSE 0
    IN  MakeRequestResult(S, p, n, to, descrip, args, doReadyCheck, timeout)

\* Array.prototype.filter with the predicate that holds of the names in yes.
FilterNames(names, yes) == SelectSeq(names, LAMBDA name : name \in yes)

RECURSIVE BroadcastLoop(_, _, _, _, _, _, _)
\* The for loop of broadcastRequest over peerNames from the k-th name on; R is
\* [next, S, promises]: nextSeqNum, the state of the peer and responsePromises
\* (a promise is the index of the makeRequest call that returned it).
BroadcastLoop(R, p, peerNames_, k, descrip, args, doReadyCheck) ==
    IF k > Len(peerNames_) THEN R
    ELSE LET r == MakeRequestOptions(R.S, p, R.next, peerNames_[k], descrip, args,
                                     Options(<<doReadyCheck>>, <<>>, <<>>, <<>>))
         IN  BroadcastLoop([next |-> r.next, S |-> r.S,
                            promises |-> Append(R.promises, Len(R.S.calls) + 1)],
                           p, peerNames_, k + 1, descrip, args, doReadyCheck)

\* broadcastRequest applying no filter.
BroadcastRequestResult_NoFilter(S, p, n, allNames, descrip, args, options) ==
    LET skipReadyChecks == IF options.skipReadyChecks # <<>>
                           THEN options.skipReadyChecks[1] ELSE FALSE
    IN  BroadcastLoop([next |-> n, S |-> S, promises |-> <<>>],
                      p, allNames, 1, descrip, args, ~skipReadyChecks)

\* broadcastRequest(descrip, args, options) on peer p, allNames being what
\* getAllPeerNames() returns; options.filter is the set of the names the
\* predicate holds of.
BroadcastRequestResult(S, p, n, allNames, descrip, args, options) ==
    LET skipReadyChecks == IF options.skipReadyChecks # <<>>
                           THEN options.skipReadyChecks[1] ELSE FALSE
        peerNames_ == IF options.filter # <<>>
                      THEN FilterNames(allNames, options.filter[1])
                      ELSE allNames
    IN  BroadcastLoop([next |-> n, S |-> S, promises |-> <<>>],
                      p, peerNames_, 1, descrip, args, ~skipReadyChecks)

\* handleResponse matching the response with the oldest pending request.
HandleResponse_ByArrival(S, p, wrapper) ==
    LET oldest == IF DOMAIN S.reqs = {} THEN wrapper.seqNum
                  ELSE CHOOSE k \in DOMAIN S.reqs : \A l \in DOMAIN S.reqs : k <= l
        cr == ConsumeRequestData(S.reqs, S.timers, oldest)
        S1 == [S EXCEPT !.reqs = cr.reqs, !.timers = cr.timers]
    IN  IF cr.data = <<>> THEN S1
        ELSE IF StringTruthy(wrapper.rejection_reason)
        THEN Settle(S1, p, cr.data[1].reject, "rejected", wrapper.rejection_reason)
        ELSE Settle(S1, p, cr.data[1].resolve, "resolved", wrapper.result)

\* handleResponse(wrapper) on peer p.
HandleResponse(S, p, wrapper) ==
    LET cr == ConsumeRequestData(S.reqs, S.timers, wrapper.seqNum)
        S1 == [S EXCEPT !.reqs = cr.reqs, !.timers = cr.timers]
    IN  IF cr.data = <<>> THEN S1
        ELSE IF StringTruthy(wrapper.rejection_reason)
        THEN Settle(S1, p, cr.data[1].reject, "rejected", wrapper.rejection_reason)
        ELSE Settle(S1, p, cr.data[1].resolve, "resolved", wrapper.result)

\* The timeout callback rejecting without consuming the pending entry.
TimeoutCallback_NoConsume(S, p, t) ==
    Settle(S, p, t.id, "rejected", <<TimeoutMessage>>)

\* The callback makeRequest passes to window.setTimeout, for timer t of p.
TimeoutCallback(S, p, t) ==
    LET cr == ConsumeRequestData(S.reqs, S.timers, t.seqNum)
        S1 == [S EXCEPT !.reqs = cr.reqs, !.timers = cr.timers]
    IN  IF cr.data = <<>> THEN S1
        ELSE Settle(S1, p, t.id, "rejected", <<TimeoutMessage>>)

LocalState(p) ==
    [calls |-> calls[p], reqs |-> requestsBySeqNum[p], timers |-> timers[p], out |-> {}]


\* ------------------------------------------------------------------------
\* Handling requests

\* handleRequest(wrapper) on peer p, up to the return of the handler: the
\* envelopes posted, the invocation left running, the record of this run
\* (its handler is Undef when the lookup failed and none was handled) and
\* the error thrown to the caller of handleMessage.
HandleRequest(p, isReady, wrapper) ==
    LET lk == LookupHandler(handlers[p], wrapper.handlerDescrip)
        inv == [at |-> p, from |-> wrapper.from, seqNum |-> wrapper.seqNum,
                descrip |-> wrapper.handlerDescrip, args |-> wrapper.args,
                handler |-> lk.handler, this |-> lk.this]
        none == [out |-> {}, running |-> {}, handled |-> {inv}, escaped |-> {}]
    IN  IF lk.threw # <<>>
        THEN [none EXCEPT !.out = {RejectionWrapper(wrapper.from, p, wrapper.seqNum,
                                                    lk.threw[1])}]
        ELSE IF lk.handler.beh = "throw"
        THEN [none EXCEPT !.escaped = {[at |-> p, from |-> wrapper.from,
                                        seqNum |-> wrapper.seqNum,
                                        message |-> lk.handler.m]}]
        ELSE IF lk.handler.beh = "echo"
        THEN [none EXCEPT !.out = {ResponseWrapper(wrapper.from, p, wrapper.seqNum,
                                                   <<wrapper.args>>)}]
        ELSE IF lk.handler.beh = "ready" /\ isReady
        THEN [none EXCEPT !.out = {ResponseWrapper(wrapper.from, p, wrapper.seqNum, <<>>)}]
        ELSE [none EXCEPT !.running = {inv}]

\* The continuations handleRequest attaches to the handler's promise, run
\* when the promise of invocation inv settles: the envelope posted.
HandlerSettled(inv) ==
    IF inv.handler.beh = "reject"
    THEN RejectionWrapper(inv.from, inv.at, inv.seqNum, CheckHandlingError(inv.handler.m))
    ELSE IF inv.handler.beh = "ready"
    THEN ResponseWrapper(inv.from, inv.at, inv.seqNum, <<>>)
    ELSE ResponseWrapper(inv.from, inv.at, inv.seqNum, <<inv.args>>)

\* ------------------------------------------------------------------------
\* The state machine

EmptyMap == [k \in {} |-> Undef]
\* lastCall.flip changes with every registry call.
NoCall == [flip |-> 0, op |-> "", peer |-> "", name |-> "", threw |-> <<>>]

\* lastApi.flip changes with every call; first is the number of makeRequest
\* calls the peer had made before.
NoApi == [flip |-> 0, op |-> "", peer |-> "", options |-> Options(<<>>, <<>>, <<>>, <<>>),
          allNames |-> <<>>, first |-> 0, promises |-> <<>>]

\* lastLookup.flip changes with every callHandler call.
NoLookup == [flip |-> 0, peer |-> "", registry |-> "ready" :> FnReady,
             descrip |-> <<>>, args |-> "",
             result |-> [threw |-> <<>>, handler |-> Undef, this |-> Undef,
                         callThrew |-> <<>>, ret |-> <<>>]]

InitCorrelator ==
    /\ handlers = [p \in Peers |-> "ready" :> FnReady]
    /\ builtInHandlers = [p \in Peers |-> "ready" :> FnReady]
    /\ nextSeqNum = [p \in Peers |-> 0]
    /\ requestsBySeqNum = [p \in Peers |-> EmptyMap]
    /\ ready = [p \in Peers |-> FALSE]
    /\ calls = [p \in Peers |-> <<>>]
    /\ timers = [p \in Peers |-> {}]
    /\ running = {}
    /\ net = {}
    /\ dups = 0
    /\ sent = {}
    /\ handled = {}
    /\ escaped = {}
    /\ lastCall = NoCall
    /\ lastLookup = NoLookup
    /\ peerNames = [p \in Peers |-> <<>>]
    /\ lastApi = NoApi

\* No updateMapping event dispatched yet.
NoEvent == [n |-> 0, mapping |-> <<>>, numberUpdates |-> <<>>, deletedNumber |-> <<>>,
            seenWindowNumber |-> 0, seenAllWindowNumbers |-> <<>>]

\* lastWindowCall.n counts the calls; number is the windowNumber argument
\* (<<>> being null), includeSelf the argument (<<>> when it is left out),
\* threw the name of the class of the error thrown, event the event sent.
NoWindowCall == [n |-> 0, op |-> "", window |-> "", number |-> <<>>,
                 includeSelf |-> <<>>, threw |-> <<>>, event |-> <<>>,
                 mapping |-> <<>>, windowGroupId |-> <<>>]

\* The WindowPeers after construction, with birthdays b.
InitWindows(b) ==
    /\ birthday = b
    /\ overtaken = FALSE
    /\ wstatus = [m \in Windows |-> "new"]
    /\ windowGroupId = [m \in Windows |-> <<>>]
    /\ peerNamesToBirthdays = [m \in Windows |-> <<>>]
    /\ windowNumbersToPeerNames = [m \in Windows |-> <<>>]
    /\ windowNumber = [m \in Windows |-> 0]
    /\ channel = {}
    /\ lastEvent = [m \in Windows |-> NoEvent]
    /\ windowCalls = [m \in Windows |-> <<>>]
    /\ windowNextSeqNum = [m \in Windows |-> 0]
    /\ windowRequests = [m \in Windows |-> EmptyMap]
    /\ dispatched = [m \in Windows |-> {}]
    /\ lastWindowCall = NoWindowCall

\* The PsCsPeer of every ExtensionTransport and the WindowGroupServer after
\* construction; no port is open.
InitGroupServer ==
    /\ extCalls = [m \in Windows |-> <<>>]
    /\ extNextSeqNum = [m \in Windows |-> 0]
    /\ extRequests = [m \in Windows |-> EmptyMap]
    /\ serverCalls = <<>>
    /\ serverNextSeqNum = 0
    /\ serverRequests = EmptyMap
    /\ portsByPeerName = <<>>
    /\ wire = {}

\* A WindowPeer that has not joined: its mapping is empty.
InitNumbers ==
    /\ groupNumbers = <<>>
    /\ lastNumbers = [n |-> 0, mapping |-> <<>>, numbers |-> <<>>]

\* ------------------------------------------------------------------------
\* Serializable errors (src/src/errors.js)

\* The values a property of an object takes.  Unprintable is an object that
\* has no string conversion, as JSON.parse('{"toString": 1}') is; Headers(ct)
\* is the headers of a fetch Response whose Content-Type is ct, "" for none.
JsUndefined == [t |-> "undefined", v |-> ""]
JsNull == [t |-> "null", v |-> ""]
JsString(s) == [t |-> "string", v |-> s]
JsNumber(s) == [t |-> "number", v |-> s]
JsBoolean(s) == [t |-> "boolean", v |-> s]
Unprintable == [t |-> "object", v |-> "toString"]
Headers(ct) == [t |-> "headers", v |-> ct]

\* obj.k, undefined when obj has no property k.
Get(obj, k) == IF k \in DOMAIN obj THEN obj[k] ELSE JsUndefined

\* The object literal {k1, k2, ...} of the properties K of d.
Pick(d, K) == [k \in K |-> Get(d, k)]

\* Whether template literals and the Error constructor can convert x to a
\* string, and the string they convert it to.
Printable(x) == x # Unprintable
StringOf(x) ==
    CASE x.t = "undefined" -> "undefined"
      [] x.t = "null" -> "null"
      [] x.t = "headers" -> "[object Headers]"
      [] OTHER -> x.v

\* headers.get('Content-Type')
HeadersGet(headers) == IF headers.v = "" THEN JsNull ELSE JsString(headers.v)

\* A string: a literal text, a template with the strings put into it, or the
\* JSON text of an object.
Text(s) == [json |-> <<>>, text |-> s, args |-> <<>>]
Template(s, args) == [json |-> <<>>, text |-> s, args |-> args]
JsonText(obj) == [json |-> <<obj>>, text |-> "", args |-> <<>>]
EmptyString == Text("")

\* JSON.stringify(obj): a property whose value is undefined is left out.
JsonStringify(obj) ==
    JsonText([k \in {x \in DOMAIN obj : obj[x] # JsUndefined} |-> obj[k]])

\* The texts that are JSON without being the JSON of an object.
JsonPrimitiveTexts == {"null", "5", "true"}

\* JSON.parse(str) inside `try {...} catch {}`: <<>> when d stays null (the
\* text is not JSON, or is the JSON of null), else the value, which has no
\* property unless it is an object.
JsonParse(str) ==
    IF str.json # <<>> THEN str.json
    ELSE IF str.text \in JsonPrimitiveTexts \ {"null"} THEN <<[k \in {} |-> JsUndefined]>>
    ELSE <<>>

\* An error object: its name, its message and the properties the classes of
\* errors.js set (undefined where a class sets none).
ErrorObject(name, message) ==
    [name |-> name, message |-> message, ok |-> JsUndefined, status |-> JsUndefined,
     statusText |-> JsUndefined, type |-> JsUndefined, url |-> JsUndefined,
     contentType |-> JsUndefined]

NoError == ErrorObject("", EmptyString)

\* new Error(message), message being a string.
PlainError(message) == ErrorObject("Error", message)

\* new ExtensionUnavailableError(d): what the constructor throws, if it does,
\* else the instance.
ExtensionUnavailableError(d) ==
    LET message == Get(d, "message")
    IN  [threw |-> ~Printable(message),
         e |-> ErrorObject("ExtensionUnavailableError",
                           IF message = JsUndefined THEN EmptyString
                           ELSE Text(StringOf(message)))]

\* new LackingHostPermissionError(d)
LackingHostPermissionError(d) ==
    LET url == Get(d, "url")
    IN  [threw |-> ~Printable(url),
         e |-> [ErrorObject("LackingHostPermissionError",
                            Template("Extension lacks host permission for ${url}.",
                                     <<StringOf(url)>>))
                   EXCEPT !.url = url]]

\* new FetchError(d)
FetchError(d) ==
    LET url == Get(d, "url")
        status == Get(d, "status")
        statusText == Get(d, "statusText")
        headers == Get(d, "headers")
    IN  [threw |-> ~Printable(url) \/ ~Printable(status) \/ ~Printable(statusText),
         e |-> [ErrorObject("FetchError",
                            Template("Fetch ${url} status: ${status} ${statusText}",
                                     <<StringOf(url), StringOf(status),
                                       StringOf(statusText)>>))
                   EXCEPT !.ok = Get(d, "ok"), !.status = status,
                          !.statusText = statusText, !.type = Get(d, "type"),
                          !.url = url,
                          !.contentType = IF headers.t = "headers"
                                          THEN HeadersGet(headers)
                                          ELSE Get(d, "contentType")]]

\* new FetchResolvedNotOkError(d)
FetchResolvedNotOkError(d) ==
    LET r == FetchError(Pick(d, {"ok", "status", "statusText", "type", "url"}))
    IN  [r EXCEPT !.e.name = "FetchResolvedNotOkError"]

\* new FetchRejectedError(d)
FetchRejectedError(d) ==
    LET r == FetchError(Pick(d, {"ok", "status", "statusText", "type", "url"}))
    IN  [r EXCEPT !.e.name = "FetchRejectedError",
                  !.e.message = Template("Fetch rejected. Fetch ${url} status: ${status} ${statusText}",
                                         r.e.message.args)]

\* new FetchWrongContentTypeError(d): the message is made of the contentType
\* of d.
FetchWrongContentTypeError(d) ==
    LET r == FetchError(Pick(d, {"ok", "status", "statusText", "type", "url",
                                 "headers", "contentType"}))
        contentType == Get(d, "contentType")
    IN  [threw |-> r.threw \/ ~Printable(contentType),
         e |-> [r.e EXCEPT !.name = "FetchWrongContentTypeError",
                           !.message = Template("Fetch ${url} received unexpected Content-Type: ${contentType}",
                                                <<StringOf(Get(d, "url")),
                                                  StringOf(contentType)>>)]]

\* The names under which KNOWN_ERROR_CLASSES has a class.
KNOWN_ERROR_CLASSES ==
    {"FetchResolvedNotOkError", "FetchRejectedError", "ExtensionUnavailableError",
     "LackingHostPermissionError", "FetchWrongContentTypeError"}

\* new ClassConstructor(d) for the class KNOWN_ERROR_CLASSES has under name.
Construct(name, d) ==
    CASE name = "FetchResolvedNotOkError" -> FetchResolvedNotOkError(d)
      [] name = "FetchRejectedError" -> FetchRejectedError(d)
      [] name = "ExtensionUnavailableError" -> ExtensionUnavailableError(d)
      [] name = "LackingHostPermissionError" -> LackingHostPermissionError(d)
      [] name = "FetchWrongContentTypeError" -> FetchWrongContentTypeError(d)

\* e.serialize(), for an instance e of one of the classes.
Serialize(e) ==
    LET tag == "_error_class_name" :> JsString(e.name)
    IN  CASE e.name = "ExtensionUnavailableError" ->
                 JsonStringify(tag @@ "message" :> JsString(e.message.text))
          [] e.name = "LackingHostPermissionError" ->
                 JsonStringify(tag @@ "url" :> e.url)
          [] OTHER ->
                 JsonStringify(tag @@ Pick(e, {"ok", "status", "statusText", "type",
                                               "url", "contentType"}))

\* reconstituteError(error): what it throws, if it does, else what it
\* returns.
ReconstituteError(error) ==
    LET d == JsonParse(error.message)
        name == Get(d[1], "_error_class_name")
    IN  IF d # <<>> /\ name.t = "string" /\ name.v \in KNOWN_ERROR_CLASSES
        THEN Construct(name.v, d[1])
        ELSE [threw |-> FALSE, e |-> error]

\* handleResponse(wrapper) for a wrapper whose rejection_reason is reason and
\* whose request is pending, on a peer with the flag reconstituteErrors.
HandleRejection(reason, reconstituteErrors) ==
    LET e == PlainError(reason)
        r == ReconstituteError(e)
        settled == [kind |-> "rejected", reconstituteErrors |-> reconstituteErrors,
                    reason |-> reason, error |-> e]
    IN  IF reason = EmptyString THEN [settled EXCEPT !.kind = "resolved", !.error = NoError]
        ELSE IF ~reconstituteErrors THEN settled
        ELSE IF r.threw THEN [settled EXCEPT !.kind = "threw", !.error = NoError]
        ELSE [settled EXCEPT !.error = r.e]

\* The objects handlers pass to the constructors of the classes.
ErrorArguments(name) ==
    CASE name = "ExtensionUnavailableError" ->
             {[k \in {} |-> JsUndefined]} \cup
             {"message" :> JsString(m) : m \in {"", "Extension context invalidated."}}
      [] name = "LackingHostPermissionError" ->
             {"url" :> u : u \in {JsUndefined, JsString("https://example.org/")}}
      [] OTHER ->
             {("ok" :> JsBoolean("false") @@ "status" :> JsNumber("404")
               @@ "statusText" :> JsString("Not Found") @@ "url" :> JsString("https://example.org/"))
              @@ extra @@ headers @@ contentType :
                 extra \in {[k \in {} |-> JsUndefined], "type" :> JsString("basic")},
                 headers \in {[k \in {} |-> JsUndefined], "headers" :> Headers("text/html"),
                              "headers" :> Headers("")},
                 contentType \in {[k \in {} |-> JsUndefined],
                                  "contentType" :> JsString("text/plain")}}

\* The messages of the errors handlers reject with that are not the
\* serialization of an instance: texts that are not JSON or not the JSON of
\* an object, and the JSON of objects with no tag, an unknown tag, and a
\* known tag with properties no instance has.
OtherReasons ==
    {Text(s) : s \in {"", "Peer request timed out.", "Unknown handler: h"}
                     \cup JsonPrimitiveTexts}
    \cup {JsonText(obj) : obj \in
              {"message" :> JsString("x"),
               "_error_class_name" :> JsString("TypeError") @@ "message" :> JsString("x"),
               "_error_class_name" :> JsNumber("5"),
               "_error_class_name" :> JsString("FetchRejectedError"),
               "_error_class_name" :> JsString("LackingHostPermissionError")
                   @@ "url" :> Unprintable,
               "_error_class_name" :> JsString("ExtensionUnavailableError")
                   @@ "message" :> JsNull}}

\* No request has failed.
InitErrors ==
    /\ thrown = NoError
    /\ rejectionReason = <<>>
    /\ settlement = [kind |-> "none", reconstituteErrors |-> FALSE,
                     reason |-> EmptyString, error |-> NoError]

\* The content scripts that are injected into the page, one after another.
ContentScripts == {"s1", "s2", "s3"}

\* A host page is loaded while the extension is installed; no content script
\* has run yet, and the ExtensionClient of the page has made no request.
InitPage ==
    /\ extVersAttr = <<>>
    /\ installed = TRUE
    /\ browserKind = "unknown"
    /\ uninstalls = 0
    /\ server = [s \in ContentScripts |-> [status |-> "none", valid |-> TRUE]]
    /\ pageMessages = {}
    /\ clientNextSeqNum = 0
    /\ clientRequests = <<>>
    /\ checks = <<>>

\* The page-script peer P, the background peer B and the two peers of the
\* relay: psCsPeer, which the page knows by the name of B, and csBgsPeer,
\* which the background script knows by the name of P.
Endpoints == {"P", "B"}
RelayPeers == {"psCsPeer", "csBgsPeer"}

\* The peers are constructed and connected; no request has been made.
InitRelay ==
    /\ relayCalls = [r \in Endpoints \cup RelayPeers |-> <<>>]
    /\ relayNextSeqNum = [r \in Endpoints \cup RelayPeers |-> 0]
    /\ relayRequests = [r \in Endpoints \cup RelayPeers |-> EmptyMap]
    /\ forwarded = [r \in RelayPeers |-> <<>>]
    /\ pageLink = {}
    /\ portLink = {}

\* The peer after construction.
InitSend ==
    /\ sendCalls = <<>>
    /\ sendNextSeqNum = 0
    /\ sendRequests = EmptyMap
    /\ sendTimers = {}
    /\ sendWire = {}
    /\ sendHow = <<>>
    /\ settledBy = <<>>

\* The birthday of the observing WindowPeer.
ObserverBirthday == <<1, 2>>

\* No hello handled yet.
NoHello == [n |-> 0, observed |-> 0, name |-> "", me |-> "", welcomes |-> <<>>,
            added |-> FALSE]

\* The WindowPeer after construction, before enable().
InitHello ==
    /\ obsTransport = "none"
    /\ obsConnected = FALSE
    /\ obsConnections = 0
    /\ observer = [name |-> "", birthday |-> ObserverBirthday, windowGroupId |-> <<>>,
                   peerNamesToBirthdays |-> <<>>, windowNumbersToPeerNames |-> <<>>,
                   windowNumber |-> 0, lastEvent |-> NoEvent, out |-> {}]
    /\ helloListeners = 0
    /\ obsJoins = 0
    /\ lastHello = NoHello

\* The name ExtensionTransport.getName() gives the WindowPeer.
OwnName == "win1"

\* No request handled yet.
NoChange == [n |-> 0, type |-> "", name |-> "", records |-> <<>>, mapping |-> <<>>,
             windowNumber |-> 0]

\* The WindowPeer after construction, no port open at the server.
InitMember ==
    /\ member = [name |-> "", birthday |-> ObserverBirthday, windowGroupId |-> <<>>,
                 peerNamesToBirthdays |-> <<>>, windowNumbersToPeerNames |-> <<>>,
                 windowNumber |-> 0, lastEvent |-> NoEvent, out |-> {}]
    /\ groupPorts = {}
    /\ memberInbox = <<>>
    /\ memberEvents = 0
    /\ lastChange = NoChange

\* No call of postMessageAsPeer yet.
NoPost == [to |-> "", port |-> 0, opened |-> FALSE, caught |-> FALSE]

\* The CsBgsPeer after construction.
InitPorts ==
    /\ csPorts = <<>>
    /\ csPortsByPeerName = EmptyMap
    /\ lastPost = NoPost

\* No dispatch yet.
NoDispatch == [stage |-> "none", class |-> "", registered |-> <<>>, cbs |-> <<>>,
               i |-> 0, invoked |-> <<>>]

\* No listener registered.
InitDispatch ==
    /\ listenersOfType = <<>>
    /\ dispatching = NoDispatch

\* The windows are constructed in the order w1, w2, w3 and enabled in any
\* order.
Init ==
    /\ InitCorrelator
    /\ InitGroupServer
    /\ InitNumbers
    /\ InitErrors
    /\ InitPage
    /\ InitRelay
    /\ InitHello
    /\ InitSend
    /\ InitMember
    /\ InitPorts
    /\ InitDispatch
    /\ InitWindows("w1" :> <<1, 0>> @@ "w2" :> <<1, 0, 5>> @@ "w3" :> <<1, 1>>)

\* The transport takes envelope w out of flight, or (keep) will deliver it
\* once more; the envelopes in out are handed to it.
Transport(w, keep, out) ==
    /\ keep => dups < MaxDup
    /\ dups' = IF keep THEN dups + 1 ELSE dups
    /\ net' = (IF keep THEN net ELSE net \ {w}) \cup out
    /\ sent' = sent \cup {o \in out : o.type = "response"}

Post(out) ==
    /\ net' = net \cup out
    /\ sent' = sent \cup {o \in out : o.type = "response"}
    /\ UNCHANGED dups

SetLocalState(p, S) ==
    /\ calls' = [calls EXCEPT ![p] = S.calls]
    /\ requestsBySeqNum' = [requestsBySeqNum EXCEPT ![p] = S.reqs]
    /\ timers' = [timers EXCEPT ![p] = S.timers]

\* The application calls p.makeRequest(to, descrip, args, options).
MakeRequest(p, to, descrip, args, doReadyCheck, timeout) ==
    /\ Len(calls[p]) + (IF doReadyCheck THEN 2 ELSE 1) <= MaxCalls
    /\ LET r == MakeRequestResult(LocalState(p), p, nextSeqNum[p],
                                  to, descrip, args, doReadyCheck, timeout)
       IN  /\ nextSeqNum' = [nextSeqNum EXCEPT ![p] = r.next]
           /\ SetLocalState(p, r.S)
           /\ Post(r.S.out)
    /\ UNCHANGED <<handlers, builtInHandlers, ready, running, handled, escaped, lastCall>>
    /\ UNCHANGED otherVars

\* The transport passes request envelope w to handleMessage of peer w.to.
DeliverRequest(w, keep) ==
    /\ w \in net /\ w.type = "request"
    /\ LET r == HandleRequest(w.to, ready[w.to], w)
       IN  /\ Transport(w, keep, r.out)
           /\ running' = running \cup r.running
           /\ handled' = handled \cup r.handled
           /\ escaped' = escaped \cup r.escaped
    /\ UNCHANGED <<handlers, builtInHandlers, nextSeqNum, requestsBySeqNum, ready,
                   calls, timers, lastCall>>
    /\ UNCHANGED otherVars

\* The transport passes response envelope w to handleMessage of peer w.to.
DeliverResponse(w, keep) ==
    /\ w \in net /\ w.type = "response"
    /\ LET S == HandleResponse(LocalState(w.to), w.to, w)
       IN  /\ SetLocalState(w.to, S)
           /\ Transport(w, keep, S.out)
    /\ UNCHANGED <<handlers, builtInHandlers, nextSeqNum, ready, running, handled,
                   escaped, lastCall>>
    /\ UNCHANGED otherVars

\* The promise returned by a handler settles.
HandlerSettle(inv) ==
    /\ inv \in running /\ inv.handler.beh # "ready"
    /\ running' = running \ {inv}
    /\ Post({HandlerSettled(inv)})
    /\ UNCHANGED <<handlers, builtInHandlers, nextSeqNum, requestsBySeqNum, ready,
                   calls, timers, handled, escaped, lastCall>>
    /\ UNCHANGED otherVars

\* Timer t of peer p fires.
TimerFire(p, t) ==
    /\ t \in timers[p]
    /\ LET S0 == LocalState(p)
           S == TimeoutCallback([S0 EXCEPT !.timers = @ \ {t}], p, t)
       IN  /\ SetLocalState(p, S)
           /\ Post(S.out)
    /\ UNCHANGED <<handlers, builtInHandlers, nextSeqNum, ready, running, handled,
                   escaped, lastCall>>
    /\ UNCHANGED otherVars

\* setReady leaving the invocations of `ready` that wait unanswered.
SetReady_ForgetsWaiting(p) ==
    /\ ready' = [ready EXCEPT ![p] = TRUE]
    /\ LET waiting == {inv \in running : inv.at = p /\ inv.handler.beh = "ready"}
       IN  /\ running' = running \ waiting
           /\ Post({})
    /\ UNCHANGED <<handlers, builtInHandlers, nextSeqNum, requestsBySeqNum,
                   calls, timers, handled, escaped, lastCall>>
    /\ UNCHANGED otherVars

\* The application calls p.setReady(): the invocations of `ready` that wait
\* on readyPromise go on.
SetReady(p) ==
    /\ ready' = [ready EXCEPT ![p] = TRUE]
    /\ LET waiting == {inv \in running : inv.at = p /\ inv.handler.beh = "ready"}
       IN  /\ running' = running \ waiting
           /\ Post({HandlerSettled(inv) : inv \in waiting})
    /\ UNCHANGED <<handlers, builtInHandlers, nextSeqNum, requestsBySeqNum,
                   calls, timers, handled, escaped, lastCall>>
    /\ UNCHANGED otherVars

\* The application calls p.addHandler(name, handler).
AddHandler(p, name, handler) ==
    /\ LET r == AddHandlerResult(handlers[p], builtInHandlers[p], name, handler)
       IN  /\ handlers' = [handlers EXCEPT ![p] = r.handlers]
           /\ lastCall' = [flip |-> 1 - lastCall.flip, op |-> "addHandler", peer |-> p,
                           name |-> name, threw |-> r.threw]
    /\ UNCHANGED <<builtInHandlers, nextSeqNum, requestsBySeqNum, ready, calls, timers,
                   running, net, dups, sent, handled, escaped>>
    /\ UNCHANGED otherVars

\* A subclass calls p._addBuiltInHandler(name, handler).
AddBuiltInHandler(p, name, handler) ==
    /\ builtInHandlers' = [builtInHandlers EXCEPT ![p] = MapSet(@, name, handler)]
    /\ handlers' = [handlers EXCEPT ![p] = MapSet(@, name, handler)]
    /\ lastCall' = [flip |-> 1 - lastCall.flip, op |-> "_addBuiltInHandler", peer |-> p,
                    name |-> name, threw |-> <<>>]
    /\ UNCHANGED <<nextSeqNum, requestsBySeqNum, ready, calls, timers,
                   running, net, dups, sent, handled, escaped>>
    /\ UNCHANGED otherVars

\* The options the application passes to makeRequest.
RequestOptions ==
    {Options(d, <<>>, <<>>, <<>>) : d \in {<<>>, <<TRUE>>, <<FALSE>>}}
\* The options the application passes to broadcastRequest.
BroadcastOptions ==
    {Options(<<>>, <<>>, f, k) : f \in {<<>>} \cup {<<yes>> : yes \in SUBSET Peers},
                                k \in {<<>>, <<TRUE>>, <<FALSE>>}}

\* The subclass of p learns of a connected peer: getAllPeerNames() of the
\* base class returns [], that of a subclass the names it has learnt.
LearnPeer(p, name) ==
    /\ \A k \in DOMAIN peerNames[p] : peerNames[p][k] # name
    /\ peerNames' = [peerNames EXCEPT ![p] = Append(@, name)]
    /\ UNCHANGED <<handlers, builtInHandlers, nextSeqNum, requestsBySeqNum, ready, calls,
                   timers, running, net, dups, sent, handled, escaped, lastCall>>
    /\ UNCHANGED <<lookupVars, lastApi, laterVars>>

\* The application calls p.makeRequest(to, descrip, args, options).
MakeRequestWithOptions(p, to, descrip, args, options) ==
    /\ Len(calls[p]) < MaxBroadcastCalls
    /\ LET r == MakeRequestOptions(LocalState(p), p, nextSeqNum[p],
                                   to, descrip, args, options)
       IN  /\ nextSeqNum' = [nextSeqNum EXCEPT ![p] = r.next]
           /\ SetLocalState(p, r.S)
           /\ Post(r.S.out)
           /\ lastApi' = [flip |-> 1 - lastApi.flip, op |-> "makeRequest", peer |-> p,
                          options |-> options, allNames |-> <<to>>,
                          first |-> Len(calls[p]), promises |-> <<Len(calls[p]) + 1>>]
    /\ UNCHANGED <<handlers, builtInHandlers, ready, running, handled, escaped, lastCall>>
    /\ UNCHANGED <<lookupVars, peerNames, laterVars>>

\* The application calls p.broadcastRequest(descrip, args, options).
BroadcastRequest(p, descrip, args, options) ==
    /\ Len(calls[p]) < MaxBroadcastCalls
    /\ LET r == BroadcastRequestResult(LocalState(p), p, nextSeqNum[p], peerNames[p],
                                       descrip, args, options)
       IN  /\ nextSeqNum' = [nextSeqNum EXCEPT ![p] = r.next]
           /\ SetLocalState(p, r.S)
           /\ Post(r.S.out)
           /\ lastApi' = [flip |-> 1 - lastApi.flip, op |-> "broadcastRequest", peer |-> p,
                          options |-> options, allNames |-> peerNames[p],
                          first |-> Len(calls[p]), promises |-> r.promises]
    /\ UNCHANGED <<handlers, builtInHandlers, ready, running, handled, escaped, lastCall>>
    /\ UNCHANGED <<lookupVars, peerNames, laterVars>>

\* Code on the side of peer p calls p.callHandler(descrip, args).
CallHandler(p, descrip, args) ==
    /\ lastLookup' = [flip |-> 1 - lastLookup.flip, peer |-> p,
                      registry |-> handlers[p], descrip |-> descrip, args |-> args,
                      result |-> CallHandlerResult(handlers[p], descrip, args)]
    /\ UNCHANGED <<handlers, builtInHandlers, nextSeqNum, requestsBySeqNum, ready, calls,
                   timers, running, net, dups, sent, handled, escaped, lastCall>>
    /\ UNCHANGED <<broadcastVars, laterVars>>

\* The correlator: application code registers a handler once per name, under
\* names that are not reserved.
Next ==
    \/ \E p \in Requesters, to \in Servers, descrip \in Descrips, args \in Args,
          doReadyCheck \in BOOLEAN, timeout \in Timeouts :
            MakeRequest(p, to, descrip, args, doReadyCheck, timeout)
    \/ \E w \in net, keep \in BOOLEAN : DeliverRequest(w, keep)
    \/ \E w \in net, keep \in BOOLEAN : DeliverResponse(w, keep)
    \/ \E inv \in running : HandlerSettle(inv)
    \/ \E p \in Peers : \E t \in timers[p] : TimerFire(p, t)
    \/ \E p \in Servers : SetReady(p)
    \/ \E p \in Servers, handler \in UserHandlers :
            \E name \in UserNames \ DOMAIN handlers[p] : AddHandler(p, name, handler)

Spec == Init /\ [][Next]_vars

\* The registry alone: any sequence of registry calls.
NextRegistry ==
    \/ \E p \in Servers, name \in UserNames, handler \in UserHandlers :
            AddHandler(p, name, handler)
    \/ \E p \in Servers, name \in UserNames, handler \in UserHandlers :
            AddBuiltInHandler(p, name, handler)

SpecRegistry == Init /\ [][NextRegistry]_vars

\* lookupHandler alone: values of every kind are registered and looked up.
NextLookup ==
    \/ \E p \in Servers, handler \in RegistryValues : AddHandler(p, "h", handler)
    \/ \E p \in Servers, descrip \in LookupDescrips, args \in Args :
            CallHandler(p, descrip, args)

SpecLookup == Init /\ [][NextLookup]_vars

\* Broadcasts: a peer that learns the names of its peers, itself included,
\* and requests them one by one or all at once.
NextBroadcast ==
    \/ \E p \in Requesters, name \in Peers : LearnPeer(p, name)
    \/ \E p \in Requesters, to \in Peers, options \in RequestOptions :
            MakeRequestWithOptions(p, to, <<"h">>, "x1", options)
    \/ \E p \in Requesters, options \in BroadcastOptions :
            BroadcastRequest(p, <<"h">>, "x1", options)
    \/ \E w \in net : DeliverRequest(w, FALSE)
    \/ \E w \in net : DeliverResponse(w, FALSE)
    \/ \E p \in Peers : SetReady(p)
    \/ \E p \in Servers : \E name \in {"h"} \ DOMAIN handlers[p] :
            AddHandler(p, name, FnEcho)

SpecBroadcast == Init /\ [][NextBroadcast]_vars


\* The event loop runs the callback of every armed timer, the transport
\* delivers every envelope it was handed and every handler promise other than
\* readyPromise settles.  No fairness is stated for the application: setReady
\* may never be called.
SpecFair ==
    /\ Spec
    /\ WF_vars(\E p \in Peers : \E t \in timers[p] : TimerFire(p, t))
    /\ WF_vars(\E w \in net : DeliverRequest(w, FALSE))
    /\ WF_vars(\E w \in net : DeliverResponse(w, FALSE))
    /\ WF_vars(\E inv \in running : HandlerSettle(inv))

\* ------------------------------------------------------------------------
\* The window group (src/src/windowpeer.js over BroadcastChannelTransport)

RECURSIVE StrLess(_, _)
\* a < b on JavaScript strings: code unit by code unit, a proper prefix first.
StrLess(a, b) ==
    IF b = <<>> THEN FALSE
    ELSE IF a = <<>> THEN TRUE
    ELSE IF a[1] # b[1] THEN a[1] < b[1]
    ELSE StrLess(Tail(a), Tail(b))

\* The comparator recomputeWindowNumbers passes to sort, on entries
\* <<name, birthday>>.
CompareBirthdays(p1, p2) ==
    IF StrLess(p1[2], p2[2]) THEN -1 ELSE IF StrLess(p2[2], p1[2]) THEN 1 ELSE 0

RECURSIVE InsertEntry(_, _)
\* e put into the sorted array A behind the entries that do not compare greater.
InsertEntry(A, e) ==
    IF A = <<>> THEN <<e>>
    ELSE IF CompareBirthdays(e, A[1]) < 0 THEN <<e>> \o A
    ELSE <<A[1]>> \o InsertEntry(Tail(A), e)

RECURSIVE SortEntries_InsertionOrder(_)
\* The entries left in the order of the Map.
SortEntries_InsertionOrder(entries) ==
    IF entries = <<>> THEN <<>>
    ELSE Append(SortEntries_InsertionOrder(SubSeq(entries, 1, Len(entries) - 1)),
                entries[Len(entries)])

RECURSIVE SortEntries(_)
\* Array.prototype.sort (stable) with CompareBirthdays.
SortEntries(entries) ==
    IF entries = <<>> THEN <<>>
    ELSE InsertEntry(SortEntries(SubSeq(entries, 1, Len(entries) - 1)),
                     entries[Len(entries)])

\* Map.prototype.has, on the entries of peerNamesToBirthdays.
HasEntry(entries, name) == \E k \in DOMAIN entries : entries[k][1] = name

\* Map.prototype.set: the value of an existing key is replaced in place, a new
\* key is appended.
SetEntry(entries, name, bday) ==
    IF HasEntry(entries, name)
    THEN [k \in DOMAIN entries |->
             IF entries[k][1] = name THEN <<name, bday>> ELSE entries[k]]
    ELSE Append(entries, <<name, bday>>)

\* Map.prototype.delete, without its result.
DeleteEntry(entries, name) == SelectSeq(entries, LAMBDA e : e[1] # name)

RECURSIVE SetNumbers(_, _, _)
\* The loop `windowNumbersToPeerNames.set(i + 1, peerName)` over A from its
\* i-th entry on.
SetNumbers(map, A, i) ==
    IF i > Len(A) THEN map
    ELSE SetNumbers(MapSet(map, i, A[i][1]), A, i + 1)

RECURSIVE DecimalString(_)
\* String(n) for a number n >= 0, as its digits.
DecimalString(n) ==
    IF n < 10 THEN <<n>> ELSE Append(DecimalString(n \div 10), n % 10)

RECURSIVE InsertNumber(_, _)
\* n put into the array A sorted by the default comparison, that of strings.
InsertNumber(A, n) ==
    IF A = <<>> THEN <<n>>
    ELSE IF StrLess(DecimalString(n), DecimalString(A[1])) THEN <<n>> \o A
    ELSE <<A[1]>> \o InsertNumber(Tail(A), n)

RECURSIVE SortDefault(_)
\* Array.prototype.sort without a comparator.
SortDefault(A) ==
    IF A = <<>> THEN <<>>
    ELSE InsertNumber(SortDefault(SubSeq(A, 1, Len(A) - 1)), A[Len(A)])

RECURSIVE KeysInOrder(_, _)
\* The keys of windowNumbersToPeerNames that are at least k, in the order of
\* the Map (they are set in increasing order).
KeysInOrder(map, k) ==
    IF \A n \in DOMAIN map : n < k THEN <<>>
    ELSE IF k \in DOMAIN map THEN <<k>> \o KeysInOrder(map, k + 1)
    ELSE KeysInOrder(map, k + 1)

\* getAllWindowNumbers()
GetAllWindowNumbers(map) == SortDefault(KeysInOrder(map, 1))

\* The state of one WindowPeer during a task.
WindowState(m) ==
    [name |-> m, birthday |-> birthday[m], windowGroupId |-> windowGroupId[m],
     peerNamesToBirthdays |-> peerNamesToBirthdays[m],
     windowNumbersToPeerNames |-> windowNumbersToPeerNames[m],
     windowNumber |-> windowNumber[m], lastEvent |-> lastEvent[m],
     calls |-> windowCalls[m], nextSeqNum |-> windowNextSeqNum[m],
     requestsBySeqNum |-> windowRequests[m], dispatched |-> dispatched[m],
     out |-> {}]

\* recomputeWindowNumbers dispatching the event before it assigns windowNumber.
RecomputeWindowNumbers_DispatchFirst(W) ==
    LET old == W.windowNumbersToPeerNames
        gone == {num \in DOMAIN old : ~HasEntry(W.peerNamesToBirthdays, old[num])}
        deletedNumber == IF gone = {} THEN <<>>
                         ELSE <<CHOOSE num \in gone : \A n \in gone : n <= num>>
        A == SortEntries(W.peerNamesToBirthdays)
        new == SetNumbers(<<>>, A, 1)
        mine == {i \in DOMAIN A : A[i][1] = W.name}
        number == IF mine = {} THEN W.windowNumber
                  ELSE CHOOSE i \in mine : \A j \in mine : j <= i
        OldNumber(name) == CHOOSE num \in DOMAIN old :
                               old[num] = name /\ \A n \in DOMAIN old : old[n] = name => n <= num
        moved == {k \in DOMAIN new : (\E num \in DOMAIN old : old[num] = new[k])
                                     /\ OldNumber(new[k]) # k}
        numberUpdates == [o \in {OldNumber(new[k]) : k \in moved} |->
                             CHOOSE k \in moved : OldNumber(new[k]) = o
                                 /\ \A l \in moved : OldNumber(new[l]) = o => l <= k]
    IN  [W EXCEPT !.windowNumbersToPeerNames = new,
                  !.windowNumber = number,
                  !.lastEvent = [n |-> 1,
                                 mapping |-> new, numberUpdates |-> numberUpdates,
                                 deletedNumber |-> deletedNumber,
                                 seenWindowNumber |-> W.windowNumber,
                                 seenAllWindowNumbers |-> GetAllWindowNumbers(new)]]

\* recomputeWindowNumbers without windowNumbersToPeerNames.clear().
RecomputeWindowNumbers_NoClear(W) ==
    LET old == W.windowNumbersToPeerNames
        gone == {num \in DOMAIN old : ~HasEntry(W.peerNamesToBirthdays, old[num])}
        deletedNumber == IF gone = {} THEN <<>>
                         ELSE <<CHOOSE num \in gone : \A n \in gone : n <= num>>
        A == SortEntries(W.peerNamesToBirthdays)
        new == SetNumbers(old, A, 1)
        mine == {i \in DOMAIN A : A[i][1] = W.name}
        number == IF mine = {} THEN W.windowNumber
                  ELSE CHOOSE i \in mine : \A j \in mine : j <= i
    IN  [W EXCEPT !.windowNumbersToPeerNames = new,
                  !.windowNumber = number,
                  !.lastEvent = [n |-> 1,
                                 mapping |-> new, numberUpdates |-> <<>>,
                                 deletedNumber |-> deletedNumber,
                                 seenWindowNumber |-> number,
                                 seenAllWindowNumbers |-> GetAllWindowNumbers(new)]]

\* recomputeWindowNumbers putting the numbers that did not change into
\* numberUpdates too.
RecomputeWindowNumbers_EveryNumber(W) ==
    LET old == W.windowNumbersToPeerNames
        \* the numbers whose name is no longer a member; the loop keeps the last
        gone == {num \in DOMAIN old : ~HasEntry(W.peerNamesToBirthdays, old[num])}
        deletedNumber == IF gone = {} THEN <<>>
                         ELSE <<CHOOSE num \in gone : \A n \in gone : n <= num>>
        A == SortEntries(W.peerNamesToBirthdays)
        new == SetNumbers(<<>>, A, 1)
        mine == {i \in DOMAIN A : A[i][1] = W.name}
        number == IF mine = {} THEN W.windowNumber
                  ELSE CHOOSE i \in mine : \A j \in mine : j <= i
        \* peerNamesToOldWindowNumbers.get(name)
        OldNumber(name) == CHOOSE num \in DOMAIN old :
                               old[num] = name /\ \A n \in DOMAIN old : old[n] = name => n <= num
        moved == {k \in DOMAIN new : \E num \in DOMAIN old : old[num] = new[k]}
        numberUpdates == [o \in {OldNumber(new[k]) : k \in moved} |->
                             CHOOSE k \in moved : OldNumber(new[k]) = o
                                 /\ \A l \in moved : OldNumber(new[l]) = o => l <= k]
    IN  [W EXCEPT !.windowNumbersToPeerNames = new,
                  !.windowNumber = number,
                  !.lastEvent = [n |-> 1,
                                 mapping |-> new, numberUpdates |-> numberUpdates,
                                 deletedNumber |-> deletedNumber,
                                 seenWindowNumber |-> number,
                                 seenAllWindowNumbers |-> GetAllWindowNumbers(new)]]

\* recomputeWindowNumbers(): the maps and the number it leaves, the event it
\* dispatches and what a listener reads from the peer while it runs
\* (getWindowNumber(), getAllWindowNumbers()).
RecomputeWindowNumbers(W) ==
    LET old == W.windowNumbersToPeerNames
        \* the numbers whose name is no longer a member; the loop keeps the last
        gone == {num \in DOMAIN old : ~HasEntry(W.peerNamesToBirthdays, old[num])}
        deletedNumber == IF gone = {} THEN <<>>
                         ELSE <<CHOOSE num \in gone : \A n \in gone : n <= num>>
        A == SortEntries(W.peerNamesToBirthdays)
        new == SetNumbers(<<>>, A, 1)
        mine == {i \in DOMAIN A : A[i][1] = W.name}
        number == IF mine = {} THEN W.windowNumber
                  ELSE CHOOSE i \in mine : \A j \in mine : j <= i
        \* peerNamesToOldWindowNumbers.get(name)
        OldNumber(name) == CHOOSE num \in DOMAIN old :
                               old[num] = name /\ \A n \in DOMAIN old : old[n] = name => n <= num
        moved == {k \in DOMAIN new : (\E num \in DOMAIN old : old[num] = new[k])
                                     /\ OldNumber(new[k]) # k}
        numberUpdates == [o \in {OldNumber(new[k]) : k \in moved} |->
                             CHOOSE k \in moved : OldNumber(new[k]) = o
                                 /\ \A l \in moved : OldNumber(new[l]) = o => l <= k]
    IN  [W EXCEPT !.windowNumbersToPeerNames = new,
                  !.windowNumber = number,
                  !.lastEvent = [n |-> 1,
                                 mapping |-> new, numberUpdates |-> numberUpdates,
                                 deletedNumber |-> deletedNumber,
                                 seenWindowNumber |-> number,
                                 seenAllWindowNumbers |-> GetAllWindowNumbers(new)]]

\* addPeer(name, birthday)
AddPeer(W, name, bday) ==
    RecomputeWindowNumbers(
        [W EXCEPT !.peerNamesToBirthdays = SetEntry(@, name, bday)])

\* removePeer deleting the record without recomputing.
RemovePeer_NoRecompute(W, name) ==
    [W EXCEPT !.peerNamesToBirthdays = DeleteEntry(@, name)]

\* removePeer(name)
RemovePeer(W, name) ==
    IF HasEntry(W.peerNamesToBirthdays, name)
    THEN RecomputeWindowNumbers(
             [W EXCEPT !.peerNamesToBirthdays = DeleteEntry(@, name)])
    ELSE W

\* reset()
Reset(W) ==
    [W EXCEPT !.peerNamesToBirthdays = <<>>, !.windowNumbersToPeerNames = <<>>,
              !.windowNumber = 0]

\* The message BroadcastChannelTransport.broadcast posts, as received by
\* window `to`.
ChannelMessage(type, to, name, from, bday, groupId) ==
    [type |-> type, to |-> to, name |-> name, from |-> from, birthday |-> bday,
     windowGroupId |-> groupId]

\* hello answering with no welcome.
Hello_NoWelcome(W, message) ==
    AddPeer([W EXCEPT !.windowGroupId = message.windowGroupId],
            message.name, message.birthday)

\* hello({name, birthday, windowGroupId}); emitting welcome posts the message
\* for the window it is addressed to (the sender is not on its whitelist).
Hello(W, message) ==
    LET W1 == AddPeer([W EXCEPT !.windowGroupId = message.windowGroupId],
                      message.name, message.birthday)
    IN  IF message.name # W.name
        THEN [W1 EXCEPT !.out = @ \cup {ChannelMessage("welcome", message.name, "",
                                                       W.name, W.birthday, <<>>)}]
        ELSE W1

\* welcome({from, birthday})
Welcome(W, message) == AddPeer(W, message.from, message.birthday)

\* observeDeparture removing nobody.
ObserveDeparture_Ignored(W, message) == W

\* observeDeparture({name})
ObserveDeparture(W, message) == RemovePeer(W, message.name)

\* join(): the handlers are set up, the maps reset and join is emitted, which
\* BroadcastChannelTransport posts as hello for every other window and
\* passes to the hello handler of this one before emit returns.
Join(W) ==
    LET hello == ChannelMessage("hello", W.name, W.name, "", W.birthday, <<ChannelName>>)
        W1 == Hello(Reset(W), hello)
    IN  [W1 EXCEPT !.out = @ \cup {[hello EXCEPT !.to = x] : x \in Windows \ {W.name}}]

\* appliesToMe(whitelist, blacklist) on the transport named me.
AppliesToMe(whitelist, blacklist, me) ==
    me \in whitelist \/ (whitelist = {} /\ me \notin blacklist)

\* The handlers of every WindowPeer: the built-in one and the one the
\* application registers before it enables the peer.
WindowHandlers == "ready" :> FnReady @@ "log" :> FnEcho

RECURSIVE BroadcastOn(_, _, _, _, _)
RECURSIVE WindowReceive(_, _, _)

\* postMessageAsPeer(peerName, wrapper) of WindowPeer over
\* BroadcastChannelTransport: the wrapper's room is peerName, and emitting
\* postWindowMessage broadcasts handleWindowMessage, to the room alone unless
\* the room is the group.
PostMessageAsPeer(W, peerName, wrapper) ==
    BroadcastOn(W, "handleWindowMessage", wrapper,
                IF peerName = ChannelName THEN {} ELSE {peerName}, {})

\* handleWindowMessage(wrapper), that is handleMessage of Peer: a request is
\* answered by its handler or rejected by the lookup, a response settles
\* the call it answers.
HandleWindowMessage(W, wrapper) ==
    IF wrapper.type = "request"
    THEN LET lk == LookupHandler(WindowHandlers, wrapper.handlerDescrip)
         IN  IF lk.threw # <<>>
             THEN PostMessageAsPeer(W, wrapper.from,
                      RejectionWrapper(wrapper.from, W.name, wrapper.seqNum, lk.threw[1]))
             ELSE IF lk.handler.beh = "echo"
             THEN PostMessageAsPeer(W, wrapper.from,
                      ResponseWrapper(wrapper.from, W.name, wrapper.seqNum,
                                      <<wrapper.args>>))
             ELSE W
    ELSE LET S == HandleResponse([calls |-> W.calls, reqs |-> W.requestsBySeqNum,
                                  timers |-> {}, out |-> {}], W.name, wrapper)
         IN  [W EXCEPT !.calls = S.calls, !.requestsBySeqNum = S.reqs]

\* receive({type, whitelist, blacklist, message}) of the transport of W, for
\* a message that applies to it: the protocol handler set for the type runs.
WindowReceive(W, type, message) ==
    IF type = "genericWindowEvent"
    THEN [W EXCEPT !.dispatched = @ \cup {message}]
    ELSE HandleWindowMessage(W, message)

\* broadcast(eventType, message, {whitelist, blacklist}) of the transport of
\* W: the message is posted on the channel, where the windows it applies to
\* will handle it, and passed to receive of this transport.
BroadcastOn(W, type, message, whitelist, blacklist) ==
    LET posted == {[type |-> type, to |-> x, message |-> message] :
                      x \in {y \in Windows \ {W.name} :
                                AppliesToMe(whitelist, blacklist, y)}}
        W1 == [W EXCEPT !.out = @ \cup posted]
    IN  IF AppliesToMe(whitelist, blacklist, W.name)
        THEN WindowReceive(W1, type, message)
        ELSE W1

\* lookUpPeerName(windowNumber): the class of the error thrown, if any, else
\* the name.
LookUpPeerName(W, number) ==
    IF number \in DOMAIN W.windowNumbersToPeerNames
    THEN [threw |-> <<>>, peerName |-> W.windowNumbersToPeerNames[number]]
    ELSE [threw |-> <<"UnknownPeerError">>, peerName |-> ""]

\* makeWindowRequest taking the sequence number before it looks the name up.
MakeWindowRequest_SeqNumFirst(W, number, descrip, args) ==
    LET lk == LookUpPeerName(W, number)
    IN  [threw |-> lk.threw,
         W |-> [W EXCEPT !.nextSeqNum = TakeNextSeqNum(@).next]]

\* makeWindowRequest(windowNumber, handlerDescrip, args): the class of the
\* error thrown, if any, and the peer it leaves.
MakeWindowRequest(W, number, descrip, args) ==
    LET lk == LookUpPeerName(W, number)
        r == MakeRequestResult([calls |-> W.calls, reqs |-> W.requestsBySeqNum,
                                timers |-> {}, out |-> {}],
                               W.name, W.nextSeqNum, lk.peerName, descrip, args, FALSE, 0)
        W1 == [W EXCEPT !.calls = r.S.calls, !.requestsBySeqNum = r.S.reqs,
                        !.nextSeqNum = r.next]
        wrapper == CHOOSE w \in r.S.out : TRUE
    IN  IF lk.threw # <<>> THEN [threw |-> lk.threw, W |-> W]
        ELSE [threw |-> <<>>, W |-> PostMessageAsPeer(W1, lk.peerName, wrapper)]

\* sendWindowEvent(windowNumber, event, includeSelf) up to the emit: number
\* is <<>> for null, includeSelf is <<>> when the argument is left out.  The
\* class of the error thrown, if any, else the wrapper it emits.
SendWindowEventWrapper(W, number, event, includeSelf) ==
    LET lk == IF number = <<>> THEN [threw |-> <<>>, peerName |-> ""]
              ELSE LookUpPeerName(W, number[1])
        room == IF number = <<>> THEN W.windowGroupId[1] ELSE lk.peerName
        flag == IF includeSelf = <<>> THEN TRUE ELSE includeSelf[1]
        none == [room |-> "", event |-> event, includeSelf |-> flag]
    IN  IF number = <<>> /\ W.windowGroupId = <<>>
        THEN [threw |-> <<"NoGroupError">>, wrapper |-> none]
        ELSE IF lk.threw # <<>> THEN [threw |-> lk.threw, wrapper |-> none]
        ELSE [threw |-> <<>>, wrapper |-> [none EXCEPT !.room = room]]

\* emit(sendWindowEvent, message) of BroadcastChannelTransport:
\* genericWindowEvent is broadcast to the room, or to the group, without the
\* sender if includeSelf is false.
EmitSendWindowEvent(W, message) ==
    BroadcastOn(W, "genericWindowEvent", message.event,
                IF message.room = ChannelName THEN {} ELSE {message.room},
                IF message.includeSelf = FALSE THEN {W.name} ELSE {})

\* sendWindowEvent(windowNumber, event, includeSelf) over
\* BroadcastChannelTransport.
SendWindowEvent(W, number, event, includeSelf) ==
    LET r == SendWindowEventWrapper(W, number, event, includeSelf)
    IN  IF r.threw # <<>> THEN [threw |-> r.threw, W |-> W]
        ELSE [threw |-> <<>>, W |-> EmitSendWindowEvent(W, r.wrapper)]

\* The messages of out that reach a window: a window that was unloaded
\* receives nothing.
Reaching(out) == {msg \in out : wstatus[msg.to] # "departed"}

SetWindowState(m, W) ==
    /\ windowGroupId' = [windowGroupId EXCEPT ![m] = W.windowGroupId]
    /\ peerNamesToBirthdays' = [peerNamesToBirthdays EXCEPT ![m] = W.peerNamesToBirthdays]
    /\ windowNumbersToPeerNames' =
           [windowNumbersToPeerNames EXCEPT ![m] = W.windowNumbersToPeerNames]
    /\ windowNumber' = [windowNumber EXCEPT ![m] = W.windowNumber]
    /\ lastEvent' = [lastEvent EXCEPT ![m] = W.lastEvent]
    /\ windowCalls' = [windowCalls EXCEPT ![m] = W.calls]
    /\ windowNextSeqNum' = [windowNextSeqNum EXCEPT ![m] = W.nextSeqNum]
    /\ windowRequests' = [windowRequests EXCEPT ![m] = W.requestsBySeqNum]
    /\ dispatched' = [dispatched EXCEPT ![m] = W.dispatched]

\* The application calls enable() on the WindowPeer of window m (the
\* transport reports itself connected).
Enable(m) ==
    /\ wstatus[m] = "new"
    /\ wstatus' = [wstatus EXCEPT ![m] = "enabled"]
    /\ LET W == Join(WindowState(m))
       IN  SetWindowState(m, W) /\ channel' = channel \cup Reaching(W.out)
    /\ UNCHANGED <<nonWindowVars, birthday, overtaken, lastWindowCall>>

\* The channel holds a hello or a welcome of the window whose departure
\* msg announces, for the window msg is for.
Overtakes(msg) ==
    /\ msg.type = "observeDeparture"
    /\ \E other \in channel :
          /\ other.to = msg.to
          /\ \/ other.type = "hello" /\ other.name = msg.name
             \/ other.type = "welcome" /\ other.from = msg.name

\* Window msg.to receives msg from the channel: receive passes it to the
\* protocol handler set for its type, if join has set one.
Receive(msg) ==
    /\ msg \in channel
    /\ overtaken' = (overtaken \/ Overtakes(msg))
    /\ IF wstatus[msg.to] # "enabled"
       THEN /\ channel' = channel \ {msg}
            /\ UNCHANGED <<windowGroupId, peerNamesToBirthdays,
                           windowNumbersToPeerNames, windowNumber, lastEvent,
                           windowPeerVars>>
       ELSE LET W0 == WindowState(msg.to)
                W == CASE msg.type = "hello" -> Hello(W0, msg)
                       [] msg.type = "welcome" -> Welcome(W0, msg)
                       [] msg.type = "observeDeparture" -> ObserveDeparture(W0, msg)
                       [] OTHER -> WindowReceive(W0, msg.type, msg.message)
            IN  SetWindowState(msg.to, W)
                /\ channel' = (channel \ {msg}) \cup Reaching(W.out)
    /\ UNCHANGED <<nonWindowVars, birthday, wstatus, lastWindowCall>>

\* Window m is unloaded: the beforeunload listener emits depart, which the
\* transport posts as observeDeparture for every window but m.
Depart(m) ==
    /\ wstatus[m] = "enabled"
    /\ Cardinality({x \in Windows : wstatus[x] = "departed"}) < MaxDepartures
    /\ wstatus' = [wstatus EXCEPT ![m] = "departed"]
    /\ channel' = {msg \in channel : msg.to # m} \cup
           Reaching({ChannelMessage("observeDeparture", x, m, "", <<>>, <<>>) :
                        x \in Windows \ {m}})
    /\ UNCHANGED <<nonWindowVars, birthday, overtaken, windowGroupId,
                   peerNamesToBirthdays, windowNumbersToPeerNames, windowNumber,
                   lastEvent, windowApiVars>>

NextWindow ==
    \/ \E m \in Windows : Enable(m)
    \/ \E msg \in channel : Receive(msg)
    \/ \E m \in Windows : Depart(m)

SpecWindow == Init /\ [][NextWindow]_vars

\* The window numbers the application passes: an integer that may or may
\* not be in the mapping.
WindowNumbers == 1 .. 3

\* The windows whose application makes calls, and the windows that are
\* enabled while it does (the third is constructed and never enabled).
Callers == {"w2"}
Joiners == {"w1", "w2"}

\* The event the application sends with its n-th call.
WindowEvent(n) == [type |-> "note", id |-> n]

\* The application calls op on the WindowPeer of window m; r is what the call
\* threw and the peer it left.
WindowCall(m, op, number, includeSelf, event, r) ==
    /\ wstatus[m] # "departed"
    /\ lastWindowCall.n < MaxWindowCalls
    /\ lastWindowCall' = [n |-> lastWindowCall.n + 1, op |-> op, window |-> m,
                          number |-> number, includeSelf |-> includeSelf,
                          threw |-> r.threw, event |-> event,
                          mapping |-> windowNumbersToPeerNames[m],
                          windowGroupId |-> windowGroupId[m]]
    /\ SetWindowState(m, r.W)
    /\ channel' = channel \cup Reaching(r.W.out)
    /\ UNCHANGED <<nonWindowVars, birthday, overtaken, wstatus>>

LookUpPeerNameCall(m, number) ==
    WindowCall(m, "lookUpPeerName", <<number>>, <<>>, <<>>,
               [threw |-> LookUpPeerName(WindowState(m), number).threw,
                W |-> WindowState(m)])

MakeWindowRequestCall(m, number, descrip, args) ==
    WindowCall(m, "makeWindowRequest", <<number>>, <<>>, <<>>,
               MakeWindowRequest(WindowState(m), number, descrip, args))

SendWindowEventCall(m, number, includeSelf) ==
    LET event == WindowEvent(lastWindowCall.n + 1)
    IN  WindowCall(m, "sendWindowEvent", number, includeSelf, <<event>>,
                   SendWindowEvent(WindowState(m), number, event, includeSelf))

\* groupcastEvent(event, includeSelf)
GroupcastEventCall(m, includeSelf) ==
    LET event == WindowEvent(lastWindowCall.n + 1)
    IN  WindowCall(m, "groupcastEvent", <<>>, includeSelf, <<event>>,
                   SendWindowEvent(WindowState(m), <<>>, event, includeSelf))

NextWindowApi ==
    \/ \E m \in Joiners : Enable(m)
    \/ \E msg \in channel : Receive(msg)
    \/ \E m \in Callers, number \in WindowNumbers : LookUpPeerNameCall(m, number)
    \/ \E m \in Callers, number \in WindowNumbers :
          MakeWindowRequestCall(m, number, <<"log">>, "x1")
    \/ \E m \in Callers, number \in {<<>>} \cup {<<k>> : k \in WindowNumbers},
          includeSelf \in {<<>>, <<TRUE>>, <<FALSE>>} :
          SendWindowEventCall(m, number, includeSelf)
    \/ \E m \in Callers, includeSelf \in {<<>>, <<TRUE>>, <<FALSE>>} :
          GroupcastEventCall(m, includeSelf)

SpecWindowApi == Init /\ [][NextWindowApi]_vars

\* ------------------------------------------------------------------------
\* Requests that fail with a serializable error

\* A handler rejects with `new Error(e.serialize())` for an instance e it
\* has made of the class name; the rejection is returned.
HandlerRejectsSerialized(name, d) ==
    /\ rejectionReason = <<>>
    /\ ~Construct(name, d).threw
    /\ thrown' = Construct(name, d).e
    /\ rejectionReason' = <<Serialize(Construct(name, d).e)>>
    /\ settlement' = [settlement EXCEPT !.kind = "none"]
    /\ UNCHANGED <<coreVars, numbersVars, pageVars, relayVars, helloVars, moreVars>>

\* A handler rejects with an error whose message is reason.
HandlerRejectsWith(reason) ==
    /\ rejectionReason = <<>>
    /\ thrown' = PlainError(reason)
    /\ rejectionReason' = <<reason>>
    /\ settlement' = [settlement EXCEPT !.kind = "none"]
    /\ UNCHANGED <<coreVars, numbersVars, pageVars, relayVars, helloVars, moreVars>>

\* The response reaches the peer that made the request.
RejectionHandled(reconstituteErrors) ==
    /\ rejectionReason # <<>>
    /\ settlement' = HandleRejection(rejectionReason[1], reconstituteErrors)
    /\ rejectionReason' = <<>>
    /\ UNCHANGED <<coreVars, numbersVars, pageVars, relayVars, helloVars, moreVars, thrown>>

NextErrors ==
    \/ \E name \in KNOWN_ERROR_CLASSES : \E d \in ErrorArguments(name) :
          HandlerRejectsSerialized(name, d)
    \/ \E reason \in OtherReasons : HandlerRejectsWith(reason)
    \/ \E reconstituteErrors \in BOOLEAN : RejectionHandled(reconstituteErrors)

SpecErrors == Init /\ [][NextErrors]_vars

\* ------------------------------------------------------------------------
\* ExtensionServer (src/src/extserver.js) and ExtensionClient
\* (src/unnamed/part_003) on one host page

\* The names the ExtensionClient and every ExtensionServer are constructed
\* with, and the version of the manifest.
ClientName == "client"
ExtServerName == "server"
ExtVersValue == "1.0"

\* host_vers of testForHost(): the page is a host page.
HostVers == <<"2.0">>

\* The message of the error browser.runtime throws in a content script of
\* an extension that was uninstalled (Chrome).
ContextInvalidated == "Extension context invalidated."

\* _conditionalActivation: whether the server activates.
ConditionalActivation(host_vers, ext_vers) == host_vers # <<>> /\ ext_vers = <<>>

\* The content script s is injected and calls activateOnDocumentReady() on
\* the ExtensionServer it has made: the server marks the presence of the
\* extension and activates messaging, or declines.
Inject(s) ==
    /\ installed
    /\ server[s].status = "none"
    /\ IF ConditionalActivation(HostVers, extVersAttr)
       THEN /\ extVersAttr' = <<ExtVersValue>>
            /\ server' = [server EXCEPT ![s].status = "active"]
       ELSE /\ server' = [server EXCEPT ![s].status = "declined"]
            /\ UNCHANGED extVersAttr
    /\ UNCHANGED <<coreVars, notPageVars, installed, browserKind, uninstalls,
                   pageMessages, clientNextSeqNum, clientRequests, checks>>

\* The extension is uninstalled.  On Chrome its content scripts run on with
\* an invalidated context; on Firefox they stop at once.
Uninstall(kind) ==
    /\ installed
    /\ uninstalls < MaxUninstalls
    /\ browserKind \in {"unknown", kind}
    /\ browserKind' = kind
    /\ installed' = FALSE
    /\ uninstalls' = uninstalls + 1
    /\ server' = [s \in ContentScripts |->
                     IF server[s].status = "none" THEN server[s]
                     ELSE IF kind = "chrome" THEN [server[s] EXCEPT !.valid = FALSE]
                     ELSE [status |-> "stopped", valid |-> FALSE]]
    /\ UNCHANGED <<coreVars, notPageVars, extVersAttr, pageMessages,
                   clientNextSeqNum, clientRequests, checks>>

\* The extension is installed again.
Reinstall ==
    /\ ~installed
    /\ installed' = TRUE
    /\ UNCHANGED <<coreVars, notPageVars, extVersAttr, browserKind, uninstalls,
                   server, pageMessages, clientNextSeqNum, clientRequests, checks>>

\* checkExtensionPresence({timeout, selfRepairing}) up to the request:
\* the timeout the request is made with.
CheckTimeout(timeout) == IF timeout > 1 THEN timeout ELSE 1

\* The page calls checkExtensionPresence({timeout, selfRepairing}): the
\* client requests checkVers of the server.
CheckExtensionPresence(timeout, selfRepairing) ==
    /\ Cardinality(DOMAIN checks) < MaxChecks
    /\ LET t == TakeNextSeqNum(clientNextSeqNum)
       IN  /\ clientNextSeqNum' = t.next
           /\ clientRequests' = MapSet(clientRequests, t.seqNum, CheckTimeout(timeout))
           /\ checks' = MapSet(checks, t.seqNum,
                               [selfRepairing |-> selfRepairing, kind |-> "pending",
                                error |-> NoError, attrThen |-> <<>>])
           /\ pageMessages' = pageMessages \cup
                  {[type |-> "request", from |-> ClientName, to |-> ExtServerName,
                    seqNum |-> t.seqNum, result |-> <<>>, rejection_reason |-> <<>>]}
    /\ UNCHANGED <<coreVars, notPageVars, extVersAttr, installed, browserKind,
                   uninstalls, server>>

\* checkHandlingError returning the reason it was given.
CheckHandlingErrorReason_NotSerialized == Text(ContextInvalidated)

\* checkHandlingError(reason, wrapper) for the reason checkVersHandler
\* rejects with in an invalidated context: the message of the reason it
\* returns.
CheckHandlingErrorReason ==
    Serialize(ExtensionUnavailableError("message" :> JsString(ContextInvalidated)).e)

\* The servers that listen for message events.
Listening == {s \in ContentScripts : server[s].status = "active"}

\* The window dispatches the message event of request w: every server that
\* listens handles it.  One whose context is valid responds with the
\* version; one whose context is invalidated deactivates messaging, erases
\* the presence of the extension and returns the rejection.
RequestDispatched(w) ==
    /\ w \in pageMessages /\ w.type = "request"
    /\ LET invalid == {s \in Listening : ~server[s].valid}
           response == [w EXCEPT !.type = "response", !.from = ExtServerName,
                                 !.to = w.from]
       IN  /\ server' = [s \in ContentScripts |->
                            IF s \in invalid THEN [server[s] EXCEPT !.status = "deactivated"]
                            ELSE server[s]]
           /\ extVersAttr' = IF invalid # {} THEN <<>> ELSE extVersAttr
           /\ pageMessages' = (pageMessages \ {w})
                  \cup {[response EXCEPT !.result = <<ExtVersValue>>] :
                           s \in Listening \ invalid}
                  \cup {[response EXCEPT !.rejection_reason = <<CheckHandlingErrorReason>>] :
                           s \in invalid}
    /\ UNCHANGED <<coreVars, notPageVars, installed, browserKind, uninstalls,
                   clientNextSeqNum, clientRequests, checks>>

\* The `.catch` of checkExtensionPresence for a request that was rejected
\* with error: the attribute it leaves.
CheckCatch(selfRepairing, error, attr) ==
    IF selfRepairing /\ error.name = "ExtensionUnavailableError" THEN <<>> ELSE attr

\* The window dispatches the message event of response w, which the client
\* handles: the pending request is settled, and if it is rejected the
\* `.catch` of checkExtensionPresence runs.
ResponseDispatched(w) ==
    /\ w \in pageMessages /\ w.type = "response"
    /\ pageMessages' = pageMessages \ {w}
    /\ IF w.seqNum \notin DOMAIN clientRequests
       THEN UNCHANGED <<extVersAttr, clientRequests, checks>>
       ELSE LET settled == IF w.rejection_reason = <<>>
                           THEN [kind |-> "resolved", error |-> NoError]
                           ELSE HandleRejection(w.rejection_reason[1], TRUE)
                attr == IF settled.kind = "rejected"
                        THEN CheckCatch(checks[w.seqNum].selfRepairing, settled.error,
                                        extVersAttr)
                        ELSE extVersAttr
            IN  /\ clientRequests' = MapDelete(clientRequests, w.seqNum)
                /\ extVersAttr' = attr
                /\ checks' = [checks EXCEPT ![w.seqNum].kind = settled.kind,
                                            ![w.seqNum].error = settled.error,
                                            ![w.seqNum].attrThen = attr]
    /\ UNCHANGED <<coreVars, notPageVars, installed, browserKind, uninstalls,
                   server, clientNextSeqNum>>

\* The timer of the pending request seqNum fires: the request is rejected
\* with Error('Peer request timed out.') and the `.catch` runs.
CheckTimedOut(seqNum) ==
    /\ seqNum \in DOMAIN clientRequests
    /\ LET error == PlainError(Text(TimeoutMessage))
           attr == CheckCatch(checks[seqNum].selfRepairing, error, extVersAttr)
       IN  /\ clientRequests' = MapDelete(clientRequests, seqNum)
           /\ extVersAttr' = attr
           /\ checks' = [checks EXCEPT ![seqNum].kind = "rejected",
                                       ![seqNum].error = error,
                                       ![seqNum].attrThen = attr]
    /\ UNCHANGED <<coreVars, notPageVars, installed, browserKind, uninstalls,
                   server, pageMessages, clientNextSeqNum>>

NextPage ==
    \/ \E s \in ContentScripts : Inject(s)
    \/ \E kind \in {"chrome", "firefox"} : Uninstall(kind)
    \/ Reinstall
    \/ \E timeout \in {0, 3000}, selfRepairing \in BOOLEAN :
          CheckExtensionPresence(timeout, selfRepairing)
    \/ \E w \in pageMessages : RequestDispatched(w)
    \/ \E w \in pageMessages : ResponseDispatched(w)
    \/ \E seqNum \in DOMAIN clientRequests : CheckTimedOut(seqNum)

SpecPage == Init /\ [][NextPage]_vars

\* ------------------------------------------------------------------------
\* hello and welcome over each transport (src/src/windowpeer.js, transports)

Transports == {"bc", "socket", "ext"}

\* The other members of the group and their birthdays.
OtherMembers == {"m1", "m2"}
MemberBirthday(x) == IF x = "m1" THEN <<1, 0>> ELSE IF x = "m2" THEN <<1, 3>>
                     ELSE ObserverBirthday

\* socket.id of the k-th connection of the socket.
SocketId(k) == CASE k = 1 -> "sid1" [] k = 2 -> "sid2" [] k = 3 -> "sid3"
                 [] OTHER -> "sid4"

\* transport.getName()
GetName(kind, connections) ==
    CASE kind = "bc" -> "bc1"
      [] kind = "ext" -> "win1"
      [] OTHER -> SocketId(connections)

\* setProtocolHandler(name, handler): the handlers the transport runs for
\* the event afterwards, of listeners before. BroadcastChannelTransport
\* sets the entry of a Map, ExtensionTransport the entry of the handlers of
\* its PsCsPeer, SocketTransport calls socket.on.
SetProtocolHandler(kind, listeners) ==
    IF kind = "socket" THEN listeners + 1 ELSE 1

\* The transport runs the k handlers it holds for hello on message, R
\* holding the WindowPeer and the welcomes emitted so far.
RECURSIVE RunHelloListeners(_, _, _)
RunHelloListeners(R, k, message) ==
    IF k = 0 THEN R
    ELSE LET W1 == Hello([R.W EXCEPT !.out = {}], message)
         IN  RunHelloListeners(
                 [W |-> [W1 EXCEPT !.out = {}],
                  welcomes |-> R.welcomes \o
                      (IF W1.out = {} THEN <<>> ELSE <<CHOOSE x \in W1.out : TRUE>>)],
                 k - 1, message)

\* The hello of member x as the transport hands it to the handlers.
HelloMessage(x, me) ==
    ChannelMessage("hello", me, x, "", MemberBirthday(x), <<ChannelName>>)

\* The handlers have run on the hello of x, which emit of join handed them
\* (inJoin) or the transport received.
HelloHandled(R, x, inJoin) ==
    /\ observer' = R.W
    /\ lastHello' = [n |-> lastHello.n + 1,
                     observed |-> lastHello.observed + (IF inJoin THEN 0 ELSE 1),
                     name |-> x, me |-> R.W.name,
                     welcomes |-> R.welcomes,
                     added |-> HasEntry(R.W.peerNamesToBirthdays, x)]

\* join() over a transport of kind, at its connections-th connection.
\* BroadcastChannelTransport hands the hello to the handler of this window
\* before emit returns.
ObserverJoin(kind, connections) ==
    LET listeners == SetProtocolHandler(kind, helloListeners)
        name == GetName(kind, connections)
        W == Reset([observer EXCEPT !.name = name])
    IN  /\ obsJoins' = obsJoins + 1
        /\ helloListeners' = listeners
        /\ IF kind = "bc"
           THEN HelloHandled(RunHelloListeners([W |-> W, welcomes |-> <<>>], listeners,
                                               HelloMessage(name, name)), name, TRUE)
           ELSE observer' = W /\ UNCHANGED lastHello

\* enable(transport), the transport being connected or not.
ObserverEnable(kind, connected) ==
    /\ obsTransport = "none"
    /\ kind # "socket" => connected
    /\ obsTransport' = kind
    /\ obsConnected' = connected
    /\ obsConnections' = IF connected THEN 1 ELSE 0
    /\ IF connected THEN ObserverJoin(kind, 1)
       ELSE UNCHANGED <<observer, helloListeners, obsJoins, lastHello>>
    /\ UNCHANGED <<coreVars, notHelloVars>>

\* The socket loses its connection.
SocketDisconnect ==
    /\ obsTransport = "socket"
    /\ obsConnected
    /\ obsConnected' = FALSE
    /\ UNCHANGED <<coreVars, notHelloVars, obsTransport,
                   obsConnections, observer, helloListeners, obsJoins, lastHello>>

\* The socket connects, again or for the first time: the listener of
\* 'connect' that enable() added calls join().
SocketConnect ==
    /\ obsTransport = "socket"
    /\ ~obsConnected
    /\ obsJoins < MaxJoins
    /\ obsConnected' = TRUE
    /\ obsConnections' = obsConnections + 1
    /\ ObserverJoin("socket", obsConnections + 1)
    /\ UNCHANGED <<coreVars, notHelloVars, obsTransport>>

\* The application calls join() on the enabled, connected peer.
JoinCall ==
    /\ obsTransport # "none"
    /\ obsConnected
    /\ obsJoins < MaxJoins
    /\ ObserverJoin(obsTransport, obsConnections)
    /\ UNCHANGED <<coreVars, notHelloVars, obsTransport,
                   obsConnected, obsConnections>>

\* The transport receives the hello of x: of another member, or of this
\* window when the transport is one that a server answers for.
HelloObserved(x) ==
    /\ obsTransport # "none"
    /\ obsConnected
    /\ obsJoins > 0
    /\ lastHello.observed < MaxHellos
    /\ x \in OtherMembers \/ (x = observer.name /\ obsTransport # "bc")
    /\ HelloHandled(RunHelloListeners([W |-> observer, welcomes |-> <<>>],
                                      helloListeners, HelloMessage(x, observer.name)),
                    x, FALSE)
    /\ UNCHANGED <<coreVars, notHelloVars, obsTransport,
                   obsConnected, obsConnections, helloListeners, obsJoins>>

NextHello ==
    \/ \E kind \in Transports, connected \in BOOLEAN : ObserverEnable(kind, connected)
    \/ SocketDisconnect
    \/ SocketConnect
    \/ JoinCall
    \/ \E x \in OtherMembers \cup {GetName(obsTransport, obsConnections)} :
          HelloObserved(x)

SpecHello == Init /\ [][NextHello]_vars

\* ------------------------------------------------------------------------
\* makeRequest over a transport that answers or fails inside
\* postMessageAsPeer (src/src/peer.js, src/unnamed/part_004)

\* The requesting peer, the peer it makes its requests of, and another peer
\* on the same transport.
SendPeer == "P"
SendTarget == "Q"
OtherSender == "R"

\* What postMessageAsPeer does with a request: hands it to the transport;
\* hands it to a transport that delivers the response before it returns;
\* throws.
SendBehaviours == {"posts", "answers", "throws"}

\* What CsBgsPeer.postMessageAsPeer throws when it has no port.
CouldNotOpenPort == "Could not open port to Q"

\* The state of the peer during a task.
SendState ==
    [calls |-> sendCalls, reqs |-> sendRequests, timers |-> sendTimers, out |-> {}]

\* The executor of makeRequest handing the envelope to postMessageAsPeer
\* before it stores the pending entry and arms the timer.
SendResult_PostsFirst(S, n, descrip, args, timeout, how) ==
    LET i == Len(S.calls) + 1
        t == TakeNextSeqNum(n)
        S0 == [S EXCEPT !.calls = Append(@, NewCall(t.seqNum, SendTarget, descrip, args,
                                                    FALSE, timeout, 0))]
        S1 == CASE how = "answers" ->
                      HandleResponse(S0, SendPeer,
                                     ResponseWrapper(SendPeer, SendTarget, t.seqNum, <<args>>))
                [] how = "throws" -> Settle(S0, SendPeer, i, "rejected", <<CouldNotOpenPort>>)
                [] OTHER -> S0
        S2 == StartRequest(S1, SendPeer, i)
    IN  [next |-> t.next,
         S |-> CASE how = "posts" -> S2
                 [] how = "answers" -> [S2 EXCEPT !.out = {}]
                 [] OTHER -> S1]

\* makeRequest(SendTarget, descrip, args, {timeout}) on the peer, whose
\* postMessageAsPeer behaves as how: the timer is armed and the pending
\* entry stored, then postMessageAsPeer is called.  A response delivered
\* inside it is handled by handleResponse before it returns; what it
\* throws is thrown by the executor of the promise, which rejects it.
SendResult(S, n, descrip, args, timeout, how) ==
    LET i == Len(S.calls) + 1
        r == MakeRequestResult(S, SendPeer, n, SendTarget, descrip, args, FALSE, timeout)
        t == TakeNextSeqNum(n)
        S1 == [r.S EXCEPT !.out = {}]
    IN  CASE how = "answers" ->
                 [r EXCEPT !.S = HandleResponse(S1, SendPeer,
                                     ResponseWrapper(SendPeer, SendTarget, t.seqNum,
                                                     <<args>>))]
          [] how = "throws" ->
                 [r EXCEPT !.S = Settle(S1, SendPeer, i, "rejected", <<CouldNotOpenPort>>)]
          [] OTHER -> r

\* The calls of S that are settled and were not in calls_.
NewlySettled(calls_, S) ==
    {i \in DOMAIN S.calls :
        /\ S.calls[i].outcome.kind # "none"
        /\ i \in DOMAIN calls_ => calls_[i].outcome.kind = "none"}

\* The peer takes state S after a task in which it handled a response
\* from the peer named from (<<>>: it handled none).
SetSendState(S, from) ==
    /\ sendCalls' = S.calls
    /\ sendRequests' = S.reqs
    /\ sendTimers' = S.timers
    /\ settledBy' = [i \in DOMAIN S.calls |->
                        IF i \in NewlySettled(sendCalls, S) THEN from ELSE settledBy[i]]

\* The application calls makeRequest.
SendRequest(descrip, args, timeout, how) ==
    /\ Len(sendCalls) < MaxSendCalls
    /\ LET r == SendResult(SendState, sendNextSeqNum, descrip, args, timeout, how)
       IN  /\ sendNextSeqNum' = r.next
           /\ sendCalls' = r.S.calls
           /\ sendRequests' = r.S.reqs
           /\ sendTimers' = r.S.timers
           /\ sendWire' = sendWire \cup r.S.out
           /\ sendHow' = Append(sendHow, how)
           /\ settledBy' = Append(settledBy,
                                  IF how = "answers" THEN <<SendTarget>> ELSE <<>>)
    /\ UNCHANGED notSendVars

\* The target handles request w and posts its response.
SendTargetAnswers(w) ==
    /\ w \in sendWire /\ w.type = "request"
    /\ sendWire' = (sendWire \ {w})
           \cup {ResponseWrapper(w.from, w.to, w.seqNum, <<w.args>>)}
    /\ UNCHANGED <<notSendVars, sendCalls, sendNextSeqNum, sendRequests, sendTimers,
                   sendHow, settledBy>>

\* The peer handles response w of the target.
SendResponseArrives(w) ==
    /\ w \in sendWire /\ w.type = "response"
    /\ sendWire' = sendWire \ {w}
    /\ SetSendState(HandleResponse(SendState, SendPeer, w), <<w.from>>)
    /\ UNCHANGED <<notSendVars, sendNextSeqNum, sendHow>>

\* The peer handles a response that the other peer of the transport sent
\* it under seqNum.
OtherResponseArrives(seqNum) ==
    /\ SetSendState(HandleResponse(SendState, SendPeer,
                                   ResponseWrapper(SendPeer, OtherSender, seqNum,
                                                   <<"other">>)),
                    <<OtherSender>>)
    /\ UNCHANGED <<notSendVars, sendNextSeqNum, sendWire, sendHow>>

\* Timer t fires.
SendTimerFires(t) ==
    /\ t \in sendTimers
    /\ SetSendState(TimeoutCallback(SendState, SendPeer, t), <<>>)
    /\ UNCHANGED <<notSendVars, sendNextSeqNum, sendWire, sendHow>>

NextSend ==
    \/ \E args \in Args, timeout \in Timeouts, how \in SendBehaviours :
          SendRequest(<<"h">>, args, timeout, how)
    \/ \E w \in sendWire : SendTargetAnswers(w)
    \/ \E w \in sendWire : SendResponseArrives(w)
    \/ \E seqNum \in DOMAIN sendRequests : OtherResponseArrives(seqNum)
    \/ \E t \in sendTimers : SendTimerFires(t)

SpecSend == Init /\ [][NextSend]_vars

\* ------------------------------------------------------------------------
\* PsBgsRelay (src/src/wgserver.js, second part)

\* The names of P and B.
PsPeerName == "page"
BgsPeerName == "background"

\* The name each peer is constructed with.
RelayName(r) ==
    CASE r = "P" -> PsPeerName
      [] r = "B" -> BgsPeerName
      [] r = "psCsPeer" -> BgsPeerName
      [] r = "csBgsPeer" -> PsPeerName

\* The handlers the application has added on P and on B.
EndpointHandlers ==
    "ready" :> FnReady @@ "echo" :> FnEcho @@ "reject" :> FnReject("boom")
        @@ "reject0" :> FnReject("") @@ "throw" :> FnThrow("boom")

\* The requests the applications make: the descriptor and the args.
RelayedRequests ==
    {<<d, "x1">> : d \in {<<"echo">>, <<"reject">>, <<"reject0">>, <<"throw">>, <<"g">>}}
        \cup {<<<<"echo">>, "x2">>, <<<<"ready">>, "{}">>}

\* handleRequest(wrapper) of the base class on a peer named name with the
\* handlers hs, and the continuations of the promise of the handler: the
\* response it posts, none if the handler throws.
Answer(hs, name, wrapper) ==
    LET lk == LookupHandler(hs, wrapper.handlerDescrip)
        inv == [at |-> name, from |-> wrapper.from, seqNum |-> wrapper.seqNum,
                descrip |-> wrapper.handlerDescrip, args |-> wrapper.args,
                handler |-> lk.handler, this |-> lk.this]
    IN  IF lk.threw # <<>>
        THEN {RejectionWrapper(wrapper.from, name, wrapper.seqNum, lk.threw[1])}
        ELSE IF lk.handler.beh = "throw" THEN {}
        ELSE {HandlerSettled(inv)}

\* The state of peer r during a task.
RelayState(r) ==
    [calls |-> relayCalls[r], reqs |-> relayRequests[r], timers |-> {}, out |-> {}]

\* The continuations of handleRequest of the relay answering with the
\* sequence number of the request the relay made.
RelayReturn_OwnSeqNum(clientName, request, call) ==
    IF call.outcome.kind = "resolved"
    THEN ResponseWrapper(request.peerName, clientName, call.seqNum, call.outcome.val)
    ELSE RejectionWrapper(request.peerName, clientName, call.seqNum, call.outcome.val[1])

\* The continuations of handleRequest of the relay, for the request
\* [peerName, seqNum] it has forwarded with call, which is settled: the
\* response clientSide, named clientName, posts.
RelayReturn(clientName, request, call) ==
    IF call.outcome.kind = "resolved"
    THEN ResponseWrapper(request.peerName, clientName, request.seqNum, call.outcome.val)
    ELSE RejectionWrapper(request.peerName, clientName, request.seqNum,
                          call.outcome.val[1])

\* The peer of the relay on the other link.
OtherSide(r) == IF r = "psCsPeer" THEN "csBgsPeer" ELSE "psCsPeer"

\* The wrappers out are posted on link, wrapper w being taken off it (none
\* when w is <<>>).
PostedOnLink(link, w, out) ==
    IF link = "page"
    THEN /\ pageLink' = (pageLink \ {x \in pageLink : <<x>> = w}) \cup out
         /\ UNCHANGED portLink
    ELSE /\ portLink' = (portLink \ {x \in portLink : <<x>> = w}) \cup out
         /\ UNCHANGED pageLink

\* The application of endpoint e requests descrip of the name of the other
\* endpoint.
EndpointRequest(e, descrip, args) ==
    /\ Len(relayCalls["P"]) + Len(relayCalls["B"]) < MaxRelayCalls
    /\ LET to == IF e = "P" THEN BgsPeerName ELSE PsPeerName
           r == MakeRequestResult(RelayState(e), RelayName(e), relayNextSeqNum[e], to,
                                  descrip, args, FALSE, 0)
       IN  /\ relayCalls' = [relayCalls EXCEPT ![e] = r.S.calls]
           /\ relayNextSeqNum' = [relayNextSeqNum EXCEPT ![e] = r.next]
           /\ relayRequests' = [relayRequests EXCEPT ![e] = r.S.reqs]
           /\ PostedOnLink(IF e = "P" THEN "page" ELSE "port", <<>>, r.S.out)
    /\ UNCHANGED <<coreVars, notRelayVars, forwarded>>

\* Request w on link reaches the endpoint it names, which answers it.
EndpointHandlesRequest(link, w) ==
    /\ w \in (IF link = "page" THEN pageLink ELSE portLink)
    /\ w.type = "request"
    /\ w.to = (IF link = "page" THEN PsPeerName ELSE BgsPeerName)
    /\ PostedOnLink(link, <<w>>, Answer(EndpointHandlers, w.to, w))
    /\ UNCHANGED <<coreVars, notRelayVars, relayCalls,
                   relayNextSeqNum, relayRequests, forwarded>>

\* Request w on link reaches the peer of the relay it names: handleRequest of
\* the relay makes the same request of the endpoint behind the relay, on
\* the peer of the other side.
RelayForwards(link, w) ==
    /\ w \in (IF link = "page" THEN pageLink ELSE portLink)
    /\ w.type = "request"
    /\ w.to = (IF link = "page" THEN BgsPeerName ELSE PsPeerName)
    /\ LET clientSide == IF link = "page" THEN "psCsPeer" ELSE "csBgsPeer"
           serverSide == OtherSide(clientSide)
           r == MakeRequestResult(RelayState(serverSide), RelayName(serverSide),
                                  relayNextSeqNum[serverSide], w.to,
                                  w.handlerDescrip, w.args, FALSE, 0)
       IN  /\ relayCalls' = [relayCalls EXCEPT ![serverSide] = r.S.calls]
           /\ relayNextSeqNum' = [relayNextSeqNum EXCEPT ![serverSide] = r.next]
           /\ relayRequests' = [relayRequests EXCEPT ![serverSide] = r.S.reqs]
           /\ forwarded' = [forwarded EXCEPT ![serverSide] =
                                Append(@, [peerName |-> w.from, seqNum |-> w.seqNum])]
           /\ IF link = "page"
              THEN pageLink' = pageLink \ {w} /\ portLink' = portLink \cup r.S.out
              ELSE portLink' = portLink \ {w} /\ pageLink' = pageLink \cup r.S.out
    /\ UNCHANGED <<coreVars, notRelayVars>>

\* Response w on link reaches the endpoint it names.
EndpointHandlesResponse(link, w) ==
    /\ w \in (IF link = "page" THEN pageLink ELSE portLink)
    /\ w.type = "response"
    /\ w.to = (IF link = "page" THEN PsPeerName ELSE BgsPeerName)
    /\ LET e == IF link = "page" THEN "P" ELSE "B"
           S == HandleResponse(RelayState(e), RelayName(e), w)
       IN  /\ relayCalls' = [relayCalls EXCEPT ![e] = S.calls]
           /\ relayRequests' = [relayRequests EXCEPT ![e] = S.reqs]
    /\ PostedOnLink(link, <<w>>, {})
    /\ UNCHANGED <<coreVars, notRelayVars, relayNextSeqNum,
                   forwarded>>

\* Response w on link reaches the peer of the relay it names: the request
\* the relay made settles, and the relay returns the response or the
\* rejection on the other side.
RelayReturns(link, w) ==
    /\ w \in (IF link = "page" THEN pageLink ELSE portLink)
    /\ w.type = "response"
    /\ w.to = (IF link = "page" THEN BgsPeerName ELSE PsPeerName)
    /\ LET serverSide == IF link = "page" THEN "psCsPeer" ELSE "csBgsPeer"
           clientSide == OtherSide(serverSide)
           S == HandleResponse(RelayState(serverSide), RelayName(serverSide), w)
           settled == {i \in DOMAIN S.calls :
                          /\ relayCalls[serverSide][i].outcome.kind = "none"
                          /\ S.calls[i].outcome.kind # "none"}
           out == {RelayReturn(RelayName(clientSide), forwarded[serverSide][i],
                               S.calls[i]) : i \in settled}
       IN  /\ relayCalls' = [relayCalls EXCEPT ![serverSide] = S.calls]
           /\ relayRequests' = [relayRequests EXCEPT ![serverSide] = S.reqs]
           /\ IF link = "page"
              THEN pageLink' = pageLink \ {w} /\ portLink' = portLink \cup out
              ELSE portLink' = portLink \ {w} /\ pageLink' = pageLink \cup out
    /\ UNCHANGED <<coreVars, notRelayVars, relayNextSeqNum,
                   forwarded>>

NextRelay ==
    \/ \E e \in Endpoints, q \in RelayedRequests : EndpointRequest(e, q[1], q[2])
    \/ \E link \in {"page", "port"} :
          \/ \E w \in pageLink \cup portLink : EndpointHandlesRequest(link, w)
          \/ \E w \in pageLink \cup portLink : RelayForwards(link, w)
          \/ \E w \in pageLink \cup portLink : EndpointHandlesResponse(link, w)
          \/ \E w \in pageLink \cup portLink : RelayReturns(link, w)

SpecRelay == Init /\ [][NextRelay]_vars

\* ------------------------------------------------------------------------
\* getAllWindowNumbers in a group of many windows

\* The name of the k-th window of the large group, by birthday.
MemberName(k) == <<"window", k>>

\* The entries [name, birthday] of peerNamesToBirthdays of a group of n
\* windows, sorted by birthday.
GroupEntries(n) == [k \in 1 .. n |-> <<MemberName(k), <<k>>>>]

\* A window joins or leaves the group: recomputeWindowNumbers sets the
\* numbers 1 .. n for the n windows there are now.
GroupResized(n) ==
    /\ n \in 0 .. MaxGroupSize
    /\ n # Cardinality(DOMAIN groupNumbers)
    /\ groupNumbers' = SetNumbers(<<>>, GroupEntries(n), 1)
    /\ UNCHANGED <<coreVars, errorVars, pageVars, relayVars, helloVars, moreVars, lastNumbers>>

\* A listener or the application calls getAllWindowNumbers().
GetAllWindowNumbersCall ==
    /\ lastNumbers' = [n |-> 1, mapping |-> groupNumbers,
                       numbers |-> GetAllWindowNumbers(groupNumbers)]
    /\ UNCHANGED <<coreVars, errorVars, pageVars, relayVars, helloVars, moreVars, groupNumbers>>

NextNumbers ==
    \/ \E n \in 0 .. MaxGroupSize :
          /\ n \in {Cardinality(DOMAIN groupNumbers) - 1,
                    Cardinality(DOMAIN groupNumbers) + 1}
          /\ GroupResized(n)
    \/ GetAllWindowNumbersCall

SpecNumbers == Init /\ [][NextNumbers]_vars

\* ------------------------------------------------------------------------
\* The window group over ExtensionTransport (src/unnamed/part_002) and
\* WindowGroupServer (src/src/wgserver.js).  The PsBgsRelay of the content
\* script forwards every envelope between the PsCsPeer of the page and the
\* server, which knows the page by the name of its window.

\* The name of the WindowGroupServer and its windowGroupId.
ServerName == "wgs"
ServerGroupId == "windowGroup"

\* A response as it is on the wire: it has no args, which the model writes
\* as a record, as the args of every request on this wire are.
ExtResponse(wrapper) == [wrapper EXCEPT !.args = [type |-> "none"]]

\* ext_client of the transport of window m: its nextSeqNum and its state.
ExtClientState(m) ==
    [next |-> extNextSeqNum[m],
     S |-> [calls |-> extCalls[m], reqs |-> extRequests[m], timers |-> {}, out |-> {}]]

\* The server: its nextSeqNum, its state and the names of its ports.
ServerState ==
    [next |-> serverNextSeqNum,
     S |-> [calls |-> serverCalls, reqs |-> serverRequests, timers |-> {}, out |-> {}],
     ports |-> portsByPeerName]

\* emit(event, message) of ExtensionTransport posting the message without
\* making a request of it.
ExtEmit_NoRequest(E, name, event, message) ==
    [E EXCEPT !.S.out = @ \cup {RequestWrapper(ServerName, name, E.next, <<event>>,
                                               message)}]

\* emit(event, message) of ExtensionTransport, on the transport named name:
\* ext_client makes a request of the server.
ExtEmit(E, name, event, message) ==
    LET r == MakeRequestResult(E.S, name, E.next, ServerName, <<event>>, message,
                               FALSE, 0)
    IN  [next |-> r.next, S |-> r.S]

\* The meta argument the handlers of the server take: who made the request.
Meta(wrapper) == [from |-> wrapper.from]

\* variableRequest(recipient, handlerDescrip, args, includeSelf) of the server;
\* broadcastRequest reads filter and skipReadyChecks of its options.
VariableRequest(SV, recipient, descrip, args, includeSelf) ==
    LET options == [excludeSelf |-> <<~includeSelf>>]
                       @@ Options(<<>>, <<>>, <<>>, <<TRUE>>)
        R == BroadcastRequestResult(SV.S, ServerName, SV.next, SV.ports,
                                    descrip, args, options)
        r == MakeRequestOptions(SV.S, ServerName, SV.next, recipient, descrip, args,
                                Options(<<>>, <<>>, <<>>, <<>>))
    IN  IF recipient = ServerGroupId
        THEN [SV EXCEPT !.next = R.next, !.S = R.S]
        ELSE [SV EXCEPT !.next = r.next, !.S = r.S]

\* handleRequest(wrapper) of the server, the port of wrapper.from being open:
\* the built-in handler named runs and returns undefined, which is the
\* result of the response.
ServerHandleRequest(SV0, wrapper) ==
    LET SV == [SV0 EXCEPT !.ports = IF \E k \in DOMAIN @ : @[k] = wrapper.from
                                    THEN @ ELSE Append(@, wrapper.from)]
        name == wrapper.handlerDescrip[1]
        args == wrapper.args
        meta == Meta(wrapper)
        hello == BroadcastRequestResult(SV.S, ServerName, SV.next, SV.ports, <<"hello">>,
                     [windowGroupId |-> <<ServerGroupId>>, name |-> meta.from,
                      birthday |-> args.birthday],
                     Options(<<>>, <<>>, <<>>, <<TRUE>>))
        welcome == MakeRequestOptions(SV.S, ServerName, SV.next, args.to, <<"welcome">>,
                                      args, Options(<<>>, <<>>, <<>>, <<>>))
        SV1 == CASE name = "join" -> [SV EXCEPT !.next = hello.next, !.S = hello.S]
                 [] name = "welcome" -> [SV EXCEPT !.next = welcome.next, !.S = welcome.S]
                 [] name = "sendWindowEvent" ->
                        VariableRequest(SV, args.room, <<"genericWindowEvent">>,
                                        args.event, args.includeSelf # FALSE)
    IN  [SV1 EXCEPT !.S.out = @ \cup
            {ExtResponse(ResponseWrapper(wrapper.from, ServerName, wrapper.seqNum,
                                         <<>>))}]

\* join() over ExtensionTransport.
ExtJoin(W, E) ==
    [W |-> Reset(W), E |-> ExtEmit(E, W.name, "join", [birthday |-> W.birthday])]

\* handleRequest(wrapper) of ext_client of window W.name, joined telling
\* whether join has set the handlers of the WindowPeer up: the handler runs,
\* what it emits is requested of the server, and undefined is returned.
ExtHandleRequest(W0, E, joined, wrapper) ==
    LET name == wrapper.handlerDescrip[1]
        lk == LookupHandler("ready" :> FnReady, wrapper.handlerDescrip)
        W == CASE name = "hello" -> Hello(W0, wrapper.args)
               [] name = "welcome" -> Welcome(W0, wrapper.args)
               [] name = "genericWindowEvent" ->
                      [W0 EXCEPT !.dispatched = @ \cup {wrapper.args}]
        welcome == CHOOSE msg \in W.out : TRUE
        E1 == IF W.out = {} THEN E
              ELSE ExtEmit(E, W.name, "welcome",
                           [to |-> welcome.to, from |-> welcome.from,
                            birthday |-> welcome.birthday])
    IN  IF ~joined
        THEN [W |-> W0,
              E |-> [E EXCEPT !.S.out = @ \cup
                        {ExtResponse(RejectionWrapper(wrapper.from, W0.name,
                                                      wrapper.seqNum, lk.threw[1]))}]]
        ELSE [W |-> W,
              E |-> [E1 EXCEPT !.S.out = @ \cup
                        {ExtResponse(ResponseWrapper(wrapper.from, W.name,
                                                     wrapper.seqNum, <<>>))}]]

SetExtClientState(m, E) ==
    /\ extCalls' = [extCalls EXCEPT ![m] = E.S.calls]
    /\ extNextSeqNum' = [extNextSeqNum EXCEPT ![m] = E.next]
    /\ extRequests' = [extRequests EXCEPT ![m] = E.S.reqs]

SetServerState(SV) ==
    /\ serverCalls' = SV.S.calls
    /\ serverNextSeqNum' = SV.next
    /\ serverRequests' = SV.S.reqs
    /\ portsByPeerName' = SV.ports

\* The application calls enable() on the WindowPeer of window m.
ExtEnable(m) ==
    /\ wstatus[m] = "new"
    /\ wstatus' = [wstatus EXCEPT ![m] = "enabled"]
    /\ LET r == ExtJoin(WindowState(m), ExtClientState(m))
       IN  /\ SetWindowState(m, r.W)
           /\ SetExtClientState(m, r.E)
           /\ wire' = wire \cup r.E.S.out
    /\ UNCHANGED <<nonGroupVars, serverVars, birthday, overtaken, channel,
                   lastWindowCall>>

\* Envelope w reaches ext_client of window w.to.
ExtDeliver(w) ==
    /\ w \in wire /\ w.to \in Windows
    /\ LET W0 == WindowState(w.to)
           E0 == ExtClientState(w.to)
           S == HandleResponse(E0.S, w.to, w)
           r == IF w.type = "request"
                THEN ExtHandleRequest(W0, E0, wstatus[w.to] = "enabled", w)
                ELSE [W |-> W0, E |-> [E0 EXCEPT !.S = S]]
       IN  /\ SetWindowState(w.to, [r.W EXCEPT !.out = {}])
           /\ SetExtClientState(w.to, r.E)
           /\ wire' = (wire \ {w}) \cup r.E.S.out
    /\ UNCHANGED <<nonGroupVars, serverVars, birthday, overtaken, wstatus,
                   channel, lastWindowCall>>

\* Envelope w reaches the server.
ServerDeliver(w) ==
    /\ w \in wire /\ w.to = ServerName
    /\ LET SV0 == ServerState
           S == HandleResponse(SV0.S, ServerName, w)
           SV == IF w.type = "request" THEN ServerHandleRequest(SV0, w)
                 ELSE [SV0 EXCEPT !.S = S]
       IN  /\ SetServerState(SV)
           /\ wire' = (wire \ {w}) \cup SV.S.out
    /\ UNCHANGED <<nonGroupVars, windowVars, windowApiVars, extVars>>

\* The application calls sendWindowEvent (op) or groupcastEvent on the
\* WindowPeer of window m, whose transport is an ExtensionTransport.
ExtWindowCall(m, op, number, includeSelf) ==
    /\ lastWindowCall.n < MaxExtCalls
    /\ LET event == WindowEvent(lastWindowCall.n + 1)
           r == SendWindowEventWrapper(WindowState(m), number, event, includeSelf)
           E == IF r.threw # <<>> THEN ExtClientState(m)
                ELSE ExtEmit(ExtClientState(m), m, "sendWindowEvent", r.wrapper)
       IN  /\ lastWindowCall' = [n |-> lastWindowCall.n + 1, op |-> op, window |-> m,
                                 number |-> number, includeSelf |-> includeSelf,
                                 threw |-> r.threw, event |-> <<event>>,
                                 mapping |-> windowNumbersToPeerNames[m],
                                 windowGroupId |-> windowGroupId[m]]
           /\ SetExtClientState(m, E)
           /\ wire' = wire \cup E.S.out
    /\ UNCHANGED <<nonGroupVars, serverVars, windowVars, windowPeerVars>>

ExtSendWindowEventCall(m, number, includeSelf) ==
    ExtWindowCall(m, "sendWindowEvent", number, includeSelf)

ExtGroupcastEventCall(m, includeSelf) ==
    ExtWindowCall(m, "groupcastEvent", <<>>, includeSelf)

NextGroupServer ==
    \/ \E m \in Joiners : ExtEnable(m)
    \/ \E w \in wire : ExtDeliver(w)
    \/ \E w \in wire : ServerDeliver(w)
    \/ \E m \in Callers, number \in WindowNumbers :
          ExtSendWindowEventCall(m, <<number>>, <<>>)
    \/ \E m \in Callers, includeSelf \in {<<TRUE>>, <<FALSE>>} :
          ExtGroupcastEventCall(m, includeSelf)

SpecGroupServer == Init /\ [][NextGroupServer]_vars

\* ------------------------------------------------------------------------
\* One WindowPeer of a window group kept by the WindowGroupServer
\* (src/src/windowpeer.js, src/src/wgserver.js)

\* join({birthday}, meta) of the server: the hello requests it broadcasts,
\* one for every port.
ServerJoin(ports, from, bday) ==
    {ChannelMessage("hello", p, from, "", bday, <<ServerGroupId>>) : p \in ports}

\* depart(msg, meta) of the server: the observeDeparture requests it
\* broadcasts, one for every port.
ServerDepart(ports, from) ==
    {ChannelMessage("observeDeparture", p, from, "", <<>>, <<>>) : p \in ports}

\* welcome(msg) of the server: the request it makes of msg.to.
ServerWelcome(to, from, bday) ==
    {ChannelMessage("welcome", to, "", from, bday, <<>>)}

\* The port of the WindowPeer after the server has posted out: a port
\* delivers in the order of posting.
PostedToMember(out) ==
    LET mine == {msg \in out : msg.to = OwnName}
    IN  IF mine = {} THEN memberInbox
        ELSE Append(memberInbox, CHOOSE msg \in mine : TRUE)

\* enable() or join() of the WindowPeer: the maps are reset and join is
\* emitted, which opens the port; the server handles it.
MemberJoin ==
    /\ memberEvents < MaxMemberEvents
    /\ memberEvents' = memberEvents + 1
    /\ member' = Reset([member EXCEPT !.name = OwnName])
    /\ groupPorts' = groupPorts \cup {OwnName}
    /\ memberInbox' = PostedToMember(ServerJoin(groupPorts \cup {OwnName},
                                                OwnName, member.birthday))
    /\ UNCHANGED <<notMemberVars, lastChange>>

\* Window x joins the group.
OtherJoins(x) ==
    /\ memberEvents < MaxMemberEvents
    /\ x \notin groupPorts
    /\ memberEvents' = memberEvents + 1
    /\ groupPorts' = groupPorts \cup {x}
    /\ memberInbox' = PostedToMember(ServerJoin(groupPorts \cup {x}, x,
                                                MemberBirthday(x)))
    /\ UNCHANGED <<notMemberVars, member, lastChange>>

\* Window x, a member, emits welcome for the WindowPeer.
OtherWelcomes(x) ==
    /\ memberEvents < MaxMemberEvents
    /\ x \in groupPorts /\ OwnName \in groupPorts
    /\ memberEvents' = memberEvents + 1
    /\ memberInbox' = PostedToMember(ServerWelcome(OwnName, x, MemberBirthday(x)))
    /\ UNCHANGED <<notMemberVars, member, groupPorts, lastChange>>

\* Window x is unloaded: it emits depart and its port disconnects.
OtherDeparts(x) ==
    /\ memberEvents < MaxMemberEvents
    /\ x \in groupPorts
    /\ memberEvents' = memberEvents + 1
    /\ groupPorts' = groupPorts \ {x}
    /\ memberInbox' = PostedToMember(ServerDepart(groupPorts, x))
    /\ UNCHANGED <<notMemberVars, member, lastChange>>

\* beforeunload fires in the window of the WindowPeer, which emits depart;
\* the window is not unloaded (the user stays on the page), or not before
\* the server has answered.
MemberDeparts ==
    /\ memberEvents < MaxMemberEvents
    /\ OwnName \in groupPorts
    /\ memberEvents' = memberEvents + 1
    /\ memberInbox' = PostedToMember(ServerDepart(groupPorts, OwnName))
    /\ UNCHANGED <<notMemberVars, member, groupPorts, lastChange>>

\* The port delivers its oldest request and the handler of the WindowPeer
\* runs.
MemberHandles ==
    /\ memberInbox # <<>>
    /\ LET msg == Head(memberInbox)
           W0 == [member EXCEPT !.lastEvent = NoEvent, !.out = {}]
           W == CASE msg.type = "hello" -> Hello(W0, msg)
                  [] msg.type = "welcome" -> Welcome(W0, msg)
                  [] msg.type = "observeDeparture" -> ObserveDeparture(W0, msg)
       IN  /\ member' = [W EXCEPT !.out = {}]
           /\ lastChange' = [n |-> 1, type |-> msg.type,
                             name |-> IF msg.type = "welcome" THEN msg.from
                                      ELSE msg.name,
                             records |-> member.peerNamesToBirthdays,
                             mapping |-> member.windowNumbersToPeerNames,
                             windowNumber |-> member.windowNumber]
    /\ memberInbox' = Tail(memberInbox)
    /\ UNCHANGED <<notMemberVars, groupPorts, memberEvents>>

NextMember ==
    \/ MemberJoin
    \/ \E x \in OtherMembers : OtherJoins(x)
    \/ \E x \in OtherMembers : OtherWelcomes(x)
    \/ \E x \in OtherMembers : OtherDeparts(x)
    \/ MemberDeparts
    \/ MemberHandles

SpecMember == Init /\ [][NextMember]_vars

\* ------------------------------------------------------------------------
\* The ports of a CsBgsPeer (src/unnamed/part_004)

\* The name of the CsBgsPeer and the names of the peers it has ports to.
CsBgsName == "bgs"
PortPeers == {"cs1", "cs2"}

\* The peer and its ports during a task.
PortState == [ports |-> csPorts, byName |-> csPortsByPeerName]

\* savePortAndListen(peerName, port), port being a new, connected port.
SavePortAndListen(T, peerName) ==
    [ports |-> Append(T.ports, [peer |-> peerName, status |-> "connected"]),
     byName |-> MapSet(T.byName, peerName, Len(T.ports) + 1)]

\* openConnection(peerName): browser.runtime.connect gives a new port.
OpenConnection(T, peerName) == SavePortAndListen(T, peerName)

\* The listener savePortAndListen added to onDisconnect of the k-th port.
OnDisconnect(T, k) ==
    [T EXCEPT !.byName = MapDelete(@, T.ports[k].peer)]

\* postMessageAsPeer(peerName, wrapper): the ports and the map it leaves.
\* port.postMessage throws on a port that is disconnected, which the catch
\* clause answers by deleting both names of the port.
CsBgsPostMessageAsPeer(T, peerName) ==
    LET opened == peerName \notin DOMAIN T.byName
        T1 == IF opened THEN OpenConnection(T, peerName) ELSE T
        port == T1.byName[peerName]
        caught == T1.ports[port].status # "connected"
    IN  [T |-> IF caught
               THEN [T1 EXCEPT !.byName = MapDelete(MapDelete(@, CsBgsName), peerName)]
               ELSE T1,
         post |-> [to |-> peerName, port |-> port, opened |-> opened,
                   caught |-> caught]]

SetPortState(T) ==
    /\ csPorts' = T.ports
    /\ csPortsByPeerName' = T.byName

\* Peer q connects: browser.runtime.onConnect runs acceptConnection with a
\* port named q#bgs.
AcceptConnection(q) ==
    /\ Len(csPorts) < MaxPorts
    /\ SetPortState(SavePortAndListen(PortState, q))
    /\ UNCHANGED <<notPortVars, lastPost>>

\* The peer posts a message to q.
PostMessage(q) ==
    /\ q \in DOMAIN csPortsByPeerName \/ Len(csPorts) < MaxPorts
    /\ LET r == CsBgsPostMessageAsPeer(PortState, q)
       IN  /\ SetPortState(r.T)
           /\ lastPost' = r.post
    /\ UNCHANGED notPortVars

\* The k-th port is disconnected (its tab closes, the service worker is
\* stopped); its disconnect event has not been dispatched yet.
PortDisconnects(k) ==
    /\ csPorts[k].status = "connected"
    /\ csPorts' = [csPorts EXCEPT ![k].status = "disconnected"]
    /\ UNCHANGED <<notPortVars, csPortsByPeerName, lastPost>>

\* The disconnect event of the k-th port is dispatched.
DisconnectDispatched(k) ==
    /\ csPorts[k].status = "disconnected"
    /\ SetPortState(OnDisconnect([PortState EXCEPT !.ports[k].status = "closed"], k))
    /\ UNCHANGED <<notPortVars, lastPost>>

NextPorts ==
    \/ \E q \in PortPeers : AcceptConnection(q)
    \/ \E q \in PortPeers : PostMessage(q)
    \/ \E k \in DOMAIN csPorts : PortDisconnects(k)
    \/ \E k \in DOMAIN csPorts : DisconnectDispatched(k)

SpecPorts == Init /\ [][NextPorts]_vars

\* ------------------------------------------------------------------------
\* on, off and dispatch (src/src/peer.js, src/src/util.js)

\* The callbacks the application registers for the event type.
Callbacks == {"a", "b", "c"}

\* The classes that have on, off and dispatch.
Dispatchers == {"Peer", "Listenable"}

\* on(eventType, callback): the array afterwards.
On(cbs, callback) == Append(cbs, callback)

\* cbs.indexOf(callback), counting from 1; 0 when it is not there.
IndexOf(cbs, callback) ==
    IF \E k \in DOMAIN cbs : cbs[k] = callback
    THEN CHOOSE k \in DOMAIN cbs :
             cbs[k] = callback /\ \A j \in 1 .. k - 1 : cbs[j] # callback
    ELSE 0

\* off(eventType, callback): the array afterwards, spliced in place.
Off(cbs, callback) ==
    LET i0 == IndexOf(cbs, callback)
    IN  IF i0 > 0 THEN SubSeq(cbs, 1, i0 - 1) \o SubSeq(cbs, i0 + 1, Len(cbs))
        ELSE cbs

\* The array dispatch iterates: Peer.dispatch the array of the listeners
\* itself, Listenable.dispatch the copy slice() made when it began.
Iterated(D, live) == IF D.class = "Peer" THEN live ELSE D.cbs

\* The application registers callback.
OnCall(callback) ==
    /\ dispatching.stage # "running"
    /\ Len(listenersOfType) < MaxListeners
    /\ listenersOfType' = On(listenersOfType, callback)
    /\ UNCHANGED <<notDispatchVars, dispatching>>

\* The application removes callback, outside a dispatch.
OffCall(callback) ==
    /\ dispatching.stage # "running"
    /\ listenersOfType' = Off(listenersOfType, callback)
    /\ UNCHANGED <<notDispatchVars, dispatching>>

\* dispatch(event) of class begins.
DispatchBegins(class) ==
    /\ dispatching.stage # "running"
    /\ dispatching' = [stage |-> "running", class |-> class,
                       registered |-> listenersOfType, cbs |-> listenersOfType,
                       i |-> 0, invoked |-> <<>>]
    /\ UNCHANGED <<notDispatchVars, listenersOfType>>

\* The loop of dispatch takes the next element of the array it iterates and
\* calls it; the callback calls off for the callbacks in removes.
CallbackRuns(removes) ==
    /\ dispatching.stage = "running"
    /\ dispatching.i < Len(Iterated(dispatching, listenersOfType))
    /\ LET cb == Iterated(dispatching, listenersOfType)[dispatching.i + 1]
       IN  dispatching' = [dispatching EXCEPT !.i = @ + 1,
                                              !.invoked = Append(@, cb)]
    /\ listenersOfType' = IF removes = <<>> THEN listenersOfType
                          ELSE Off(listenersOfType, removes[1])
    /\ UNCHANGED notDispatchVars

\* The iterator of the loop is exhausted: dispatch returns.
DispatchReturns ==
    /\ dispatching.stage = "running"
    /\ dispatching.i >= Len(Iterated(dispatching, listenersOfType))
    /\ dispatching' = [dispatching EXCEPT !.stage = "done"]
    /\ UNCHANGED <<notDispatchVars, listenersOfType>>

NextDispatch ==
    \/ \E callback \in Callbacks : OnCall(callback)
    \/ \E callback \in Callbacks : OffCall(callback)
    \/ \E class \in Dispatchers : DispatchBegins(class)
    \/ \E removes \in {<<>>} \cup {<<x>> : x \in Callbacks} : CallbackRuns(removes)
    \/ DispatchReturns

SpecDispatch == Init /\ [][NextDispatch]_vars

\* ------------------------------------------------------------------------
\* Properties

CallIds(p) == DOMAIN calls[p]
\* The calls made by the application (not the ready checks of other calls).
UserCallIds(p) == {i \in CallIds(p) : calls[p][i].parent = 0}
\* The response envelopes ever sent in answer to call c of p.
Answers(p, c) == {w \in sent : w.to = p /\ w.seqNum = c.seqNum}
\* The runs of handleRequest for the request of call c of p.
Handled(p, c) ==
    {inv \in handled : inv.at = c.to /\ inv.from = p /\ inv.seqNum = c.seqNum}
\* The handler invocations made for call c of p.
Invocations(p, c) == {inv \in Handled(p, c) : inv.handler.t = "fn"}
\* What handleResponse settles a promise with, given the response.
OutcomeOf(w) ==
    IF w.rejection_reason # <<>> /\ w.rejection_reason # <<"">>
    THEN [kind |-> "rejected", val |-> w.rejection_reason]
    ELSE [kind |-> "resolved", val |-> w.result]

\* C1: the resolve/reject pair of every request is handled at most once in
\* total, whatever responses (duplicate, conflicting) are delivered and
\* whatever timers fire.
C1_SettledAtMostOnce ==
    \A p \in Peers : \A i \in CallIds(p) :
        calls[p][i].nResolve + calls[p][i].nReject <= 1

\* Two conflicting responses to one request, both delivered, the request
\* resolved once.
C1_Witness ==
    \E p \in Peers : \E i \in CallIds(p) :
        /\ calls[p][i].nResolve = 1 /\ calls[p][i].nReject = 0
        /\ \E w1, w2 \in Answers(p, calls[p][i]) \ net :
              OutcomeOf(w1).kind = "resolved" /\ OutcomeOf(w2).kind = "rejected"

\* C2: the sequence numbers a peer issues are strictly increasing in call
\* order, ready checks included, and every request in flight still owns the
\* pending entry under its sequence number.
C2_SeqNumsDistinct ==
    \A p \in Peers :
        /\ \A i, j \in CallIds(p) : i < j => calls[p][i].seqNum < calls[p][j].seqNum
        /\ \A i \in CallIds(p) : calls[p][i].seqNum < nextSeqNum[p]
        /\ \A i \in CallIds(p) :
              calls[p][i].stage = "pending" =>
                  /\ calls[p][i].seqNum \in DOMAIN requestsBySeqNum[p]
                  /\ requestsBySeqNum[p][calls[p][i].seqNum].resolve = i

\* A request in flight after its ready check, which took the later number,
\* was answered.
C2_Witness ==
    \E p \in Peers : \E i, j \in CallIds(p) :
        /\ calls[p][j].parent = i
        /\ calls[p][i].stage = "pending" /\ calls[p][j].stage = "settled"
        /\ calls[p][i].seqNum < calls[p][j].seqNum

\* C3: a request with timeout 0 that was handled only by invoking a handler
\* that returns its argument, synchronously or through a promise, is
\* resolved with the argument sent once its responses are delivered.
C3_RoundTrip ==
    \A p \in Peers : \A i \in UserCallIds(p) :
        LET c == calls[p][i] IN
        ( /\ c.timeout = 0
          /\ \A inv \in Handled(p, c) : inv.handler.beh \in {"echo", "echoAsync"}
          /\ Answers(p, c) # {} /\ Answers(p, c) \cap net = {} )
        => c.outcome = [kind |-> "resolved", val |-> <<c.args>>]

\* A request resolved with the value the promise of an asynchronous handler
\* produced.
C3_Witness ==
    \E p \in Peers : \E i \in UserCallIds(p) :
        /\ calls[p][i].timeout = 0
        /\ calls[p][i].outcome = [kind |-> "resolved", val |-> <<calls[p][i].args>>]
        /\ \E inv \in Invocations(p, calls[p][i]) : inv.handler.beh = "echoAsync"

C4_Step ==
    \A p \in Peers : \A i \in CallIds(p) :
        calls[p][i].stage = "settled" =>
            /\ calls'[p][i] = calls[p][i]
            /\ calls[p][i].seqNum \notin DOMAIN requestsBySeqNum'[p]
            /\ \A t \in timers'[p] : t.id # i

\* C4: once a request is settled, by its response or by its timer, no later
\* step invokes its resolve or reject or changes its outcome, no pending
\* entry exists under its sequence number, and its timer is not armed.
C4_SettledIsFinal == [][C4_Step]_vars

\* A request rejected by its timeout whose response was delivered as well.
C4_Witness ==
    \E p \in Peers : \E i \in CallIds(p) :
        /\ calls[p][i].outcome = [kind |-> "rejected", val |-> <<TimeoutMessage>>]
        /\ Answers(p, calls[p][i]) \ net # {}

\* C5: every request made with timeout > 0 eventually settles, with or
\* without a ready check, even if no response is ever delivered.
C5_TimeoutSettles ==
    \A p \in Peers : \A i \in 1..MaxCalls :
        (i \in CallIds(p) /\ calls[p][i].timeout > 0)
            ~> (i \in CallIds(p) /\ calls[p][i].stage = "settled")

\* C6: no failure of a handler body escapes handleMessage to the transport.
C6_NothingEscapes == escaped = {}

\* C7: a request with timeout 0 that was handled only by invoking a handler
\* that failed with an error of message m is, once its responses are
\* delivered, rejected with message m.
C7_RejectedWithMessage ==
    \A p \in Peers : \A i \in UserCallIds(p) :
        LET c == calls[p][i] IN
        \A m \in Messages :
            ( /\ c.timeout = 0
              /\ \A inv \in Handled(p, c) :
                    inv.handler.beh \in {"reject", "throw"} /\ inv.handler.m = m
              /\ Answers(p, c) # {} /\ Answers(p, c) \cap net = {} )
            => c.outcome = [kind |-> "rejected", val |-> <<m>>]

\* The message of the unknown-handler error for the descriptors requested.
UnknownHandlerMessage(descrip) ==
    CASE descrip = <<"h">> -> "Unknown handler: h"
      [] descrip = <<"h", ".", "bar">> -> "Unknown handler: h.bar"
      [] descrip = <<"ready">> -> "Unknown handler: ready"

\* descrip does not resolve on peer p (application code registers a name
\* once, so it did not resolve earlier either).
Unresolved(p, descrip) ==
    \/ descrip[1] \notin DOMAIN handlers[p]
    \/ Len(descrip) = 3 /\ handlers[p][descrip[1]].t = "fn"

\* C8: a request for a descriptor that does not resolve on the target invokes
\* no handler there, is answered only by rejections, and with timeout 0 is,
\* once settled, rejected with 'Unknown handler: <descriptor>'.
C8_UnknownHandler ==
    \A p \in Peers : \A i \in UserCallIds(p) :
        LET c == calls[p][i] IN
        Unresolved(c.to, c.descrip) =>
            /\ Invocations(p, c) = {}
            /\ \A w \in Answers(p, c) :
                  w = RejectionWrapper(p, c.to, c.seqNum, UnknownHandlerMessage(c.descrip))
            /\ (c.timeout = 0 /\ c.stage = "settled") =>
                  c.outcome = [kind |-> "rejected",
                               val |-> <<UnknownHandlerMessage(c.descrip)>>]

\* A request for h.bar, h being a function, rejected as unknown.
C8_Witness ==
    \E p \in Peers : \E i \in UserCallIds(p) :
        /\ calls[p][i].descrip = <<"h", ".", "bar">>
        /\ "h" \in DOMAIN handlers[calls[p][i].to]
        /\ calls[p][i].outcome = [kind |-> "rejected", val |-> <<"Unknown handler: h.bar">>]

\* C9: a request settled through its resolve/reject pair, other than by its
\* timeout, has the outcome carried by a response sent to its peer under its
\* own sequence number.
C9_Correlation ==
    \A p \in Peers : \A i \in CallIds(p) :
        LET c == calls[p][i] IN
        ( /\ c.nResolve + c.nReject > 0
          /\ c.outcome # [kind |-> "rejected", val |-> <<TimeoutMessage>>] )
        => \E w \in Answers(p, c) : w.from = c.to /\ OutcomeOf(w) = c.outcome

\* Two requests in flight together, the later one settled first while the
\* response to the earlier one is still under way, then both settled with
\* different outcomes.
C9_Witness ==
    \E p \in Peers : \E i, j \in UserCallIds(p) :
        /\ i < j
        /\ calls[p][i].stage = "pending" /\ calls[p][j].nResolve = 1
        /\ \E w \in Answers(p, calls[p][i]) \cap net :
              OutcomeOf(w) # calls[p][j].outcome

BuiltInsIntact ==
    \A p \in Peers : \A name \in DOMAIN builtInHandlers[p] :
        name \in DOMAIN handlers[p] /\ handlers[p][name] = builtInHandlers[p][name]

ReservedThrows ==
    ( /\ lastCall' # lastCall
      /\ lastCall'.op = "addHandler"
      /\ lastCall'.name \in DOMAIN builtInHandlers[lastCall'.peer] )
    => ( /\ lastCall'.threw =
               <<"Cannot register handler under reserved name: " \o lastCall'.name>>
         /\ handlers' = handlers
         /\ builtInHandlers' = builtInHandlers )

\* C10: addHandler under a built-in name throws and leaves the registry
\* unchanged, so the registry entry of every built-in name is always the
\* built-in handler.
C10_ReservedNames == [](BuiltInsIntact) /\ [][ReservedThrows]_vars

\* addHandler under a name made built-in by _addBuiltInHandler has thrown.
C10_Witness ==
    /\ lastCall.op = "addHandler" /\ lastCall.name = "h"
    /\ lastCall.threw # <<>>

\* ------------------------------------------------------------------------
\* lookupHandler

RECURSIVE PathValues(_, _, _)
\* The values the first k segments of a dotted path resolve to, by property
\* access from the registry entry of the first (undefined has no properties).
PathValues(hs, parts, k) ==
    IF k = 1 THEN <<MapGet(hs, parts[1])>>
    ELSE LET pv == PathValues(hs, parts, k - 1)
         IN  Append(pv, IF pv[k - 1] = Undef THEN Undef ELSE GetAttr(pv[k - 1], parts[k]))

\* The path of the most recent callHandler call, resolved in the registry
\* it was called with.
LookupPath ==
    LET parts == SplitDots(lastLookup.descrip, "")
    IN  PathValues(lastLookup.registry, parts, Len(parts))

\* C11: lookupHandler throws the unknown-handler error exactly when some
\* segment of the path resolves to undefined, the not-a-function error
\* exactly when every segment resolves and the final value is not a
\* function, and otherwise returns a function.
C11_LookupErrors ==
    lastLookup.peer # "" =>
        LET pv == LookupPath
            someUndefined == \E k \in DOMAIN pv : pv[k] = Undef
            final == pv[Len(pv)]
            name == JoinTokens(lastLookup.descrip)
            r == lastLookup.result
        IN  /\ (r.threw = <<"Unknown handler: " \o name>>) <=> someUndefined
            /\ (r.threw = <<"Handler \"" \o name \o "\" is not a function">>)
                   <=> (~someUndefined /\ final.t # "fn")
            /\ (r.threw = <<>>) <=> (~someUndefined /\ final.t = "fn")
            /\ (r.threw = <<>>) => r.handler.t = "fn"

\* C12: for a dotted descriptor that resolves, the function returned runs
\* the final function with the value of the path without its last segment as
\* `this` and returns its value; for an undotted descriptor the registered
\* function is returned unbound.
C12_Receiver ==
    (lastLookup.peer # "" /\ lastLookup.result.threw = <<>>) =>
        LET pv == LookupPath
            n == Len(pv)
            r == lastLookup.result
        IN  /\ r.handler = pv[n]
            /\ r.this = IF n > 1 THEN pv[n - 1] ELSE Undef
            /\ (pv[n] = FnThis /\ n > 1) =>
                   (r.callThrew = <<>> /\ r.ret = <<pv[n - 1].m>>)
            /\ (pv[n] = FnThis /\ n = 1) => r.callThrew = <<"TypeError">>
            /\ pv[n] = FnEcho => (r.callThrew = <<>> /\ r.ret = <<lastLookup.args>>)

\* h.foo.bar was called on { tag: 'obj', ..., foo: { tag: 'foo', bar } } and
\* returned the tag of the inner object.
C12_Witness ==
    /\ lastLookup.descrip = <<"h", ".", "foo", ".", "bar">>
    /\ lastLookup.result.threw = <<>>
    /\ lastLookup.result.this = ObjInner
    /\ lastLookup.result.ret = <<"foo">>

\* ------------------------------------------------------------------------
\* broadcastRequest and the ready check

\* The request envelope of call c of p has been handed to the transport.
Posted(p, c) ==
    \/ \E w \in net : w.type = "request" /\ w.from = p /\ w.seqNum = c.seqNum
    \/ Handled(p, c) # {}

\* The ready checks made by the i-th call of p.
ReadyCallsOf(p, i) == {j \in CallIds(p) : calls[p][j].parent = i}

\* C13: broadcastRequest(d, a, {filter}) issues exactly one makeRequest for
\* each name of getAllPeerNames() of which the filter holds, none for any
\* other name, and returns one promise per surviving name (none when
\* getAllPeerNames() returns []).
C13_BroadcastFilter ==
    lastApi.op = "broadcastRequest" =>
        LET p == lastApi.peer
            names == lastApi.allNames
            Survives(name) ==
                lastApi.options.filter = <<>> \/ name \in lastApi.options.filter[1]
            promises == lastApi.promises
        IN  /\ Len(promises) =
                   Cardinality({k \in DOMAIN names : Survives(names[k])})
            /\ \A k, l \in DOMAIN promises : k # l => promises[k] # promises[l]
            /\ {promises[k] : k \in DOMAIN promises} =
                   {i \in UserCallIds(p) : i > lastApi.first}
            /\ \A name \in Peers :
                   Cardinality({k \in DOMAIN promises : calls[p][promises[k]].to = name}) =
                       IF (\E k \in DOMAIN names : names[k] = name) /\ Survives(name)
                       THEN 1 ELSE 0
            /\ \A k \in DOMAIN promises :
                   /\ calls[p][promises[k]].descrip = <<"h">>
                   /\ calls[p][promises[k]].args = "x1"

\* A broadcast over two known peers whose filter holds of one of them only.
C13_Witness ==
    /\ lastApi.op = "broadcastRequest"
    /\ Len(lastApi.allNames) = 2
    /\ lastApi.options.filter = <<{"A"}>>
    /\ Len(lastApi.promises) = 1
    /\ calls[lastApi.peer][lastApi.promises[1]].to = "A"

\* C14: a request made with doReadyCheck = true (what broadcastRequest passes
\* unless skipReadyChecks is set, and not what makeRequest defaults to) is
\* handed to the transport only after the response to the 'ready' request
\* made for it to the same peer has been delivered; with doReadyCheck = false
\* no 'ready' request is made.
C14_ReadyCheckFirst ==
    /\ \A p \in Peers : \A i \in UserCallIds(p) :
          LET c == calls[p][i] IN
          IF c.doReadyCheck
          THEN /\ Cardinality(ReadyCallsOf(p, i)) = 1
               /\ \A j \in ReadyCallsOf(p, i) :
                     /\ calls[p][j].to = c.to /\ calls[p][j].descrip = <<"ready">>
                     /\ Posted(p, c) =>
                           /\ calls[p][j].outcome.kind = "resolved"
                           /\ \E w \in Answers(p, calls[p][j]) \ net : w.from = c.to
          ELSE ReadyCallsOf(p, i) = {}
    /\ \A p \in Peers :
          LET readySeqNums ==
                  {w.seqNum : w \in {w \in net : w.type = "request" /\ w.from = p
                                                 /\ w.handlerDescrip = <<"ready">>}}
                  \cup {inv.seqNum : inv \in {inv \in handled :
                                                inv.from = p /\ inv.descrip = <<"ready">>}}
          IN  \A n \in readySeqNums :
                  \E j \in CallIds(p) :
                      /\ calls[p][j].seqNum = n /\ calls[p][j].parent # 0
                      /\ calls[p][calls[p][j].parent].doReadyCheck
    /\ lastApi.op = "makeRequest" =>
          calls[lastApi.peer][lastApi.promises[1]].doReadyCheck =
              (lastApi.options.doReadyCheck = <<TRUE>>)
    /\ lastApi.op = "broadcastRequest" =>
          \A k \in DOMAIN lastApi.promises :
              calls[lastApi.peer][lastApi.promises[k]].doReadyCheck =
                  (lastApi.options.skipReadyChecks # <<TRUE>>)

\* A request issued by a broadcast without skipReadyChecks, handed to the
\* transport once its ready check was answered.
C14_Witness ==
    /\ lastApi.op = "broadcastRequest"
    /\ lastApi.options.skipReadyChecks = <<>>
    /\ \E k \in DOMAIN lastApi.promises :
          LET c == calls[lastApi.peer][lastApi.promises[k]]
          IN  c.doReadyCheck /\ Posted(lastApi.peer, c)

\* The runs of the built-in `ready` handler on peer p.
ReadyRuns(p) == {inv \in handled : inv.at = p /\ inv.handler = FnReady}

ReadyGate ==
    /\ \A p \in Peers : \A i \in CallIds(p) :
          (calls[p][i].descrip = <<"ready">> /\ calls[p][i].outcome.kind # "none")
              => ready[calls[p][i].to]
    /\ \A p \in Peers : \A inv \in ReadyRuns(p) :
          LET answers == {w \in sent : w.from = p /\ w.to = inv.from
                                       /\ w.seqNum = inv.seqNum}
          IN  IF ready[p]
              THEN answers = {ResponseWrapper(inv.from, p, inv.seqNum, <<>>)}
              ELSE answers = {}

ReadyStep ==
    \A p \in Peers :
        ready[p] => (ready'[p] /\ (SetReady(p) => UNCHANGED vars))

\* C15: a checkReady request settles only after setReady() was called on its
\* target; once setReady() was called every 'ready' request received, before
\* or after, has its successful response and none before; a further
\* setReady() changes nothing and readiness is never unset.
C15_ReadyGate == [](ReadyGate) /\ [][ReadyStep]_vars

\* A 'ready' request answered on a peer that has declared readiness, the
\* ready check resolved.
C15_Witness ==
    \E p \in Peers : \E i \in CallIds(p) :
        /\ calls[p][i].descrip = <<"ready">>
        /\ calls[p][i].outcome = [kind |-> "resolved", val |-> <<>>]
        /\ ready[calls[p][i].to]
        /\ ReadyRuns(calls[p][i].to) # {}

\* ------------------------------------------------------------------------
\* The window group

\* The names in the membership records of window m.
Members(m) == {peerNamesToBirthdays[m][k][1] : k \in DOMAIN peerNamesToBirthdays[m]}
\* The membership records of window m.
Records(m) == {peerNamesToBirthdays[m][k] : k \in DOMAIN peerNamesToBirthdays[m]}
\* The birthday window m has recorded for name x.
RecordedBirthday(m, x) ==
    LET k == CHOOSE k \in DOMAIN peerNamesToBirthdays[m] : peerNamesToBirthdays[m][k][1] = x
    IN  peerNamesToBirthdays[m][k][2]
\* The rank of window x among the windows of S, by birthday.
Rank(x, S) == 1 + Cardinality({y \in S : StrLess(birthday[y], birthday[x])})
\* Two mappings have the same keys and the same names under them.
SameMapping(map1, map2) ==
    DOMAIN map1 = DOMAIN map2 /\ \A k \in DOMAIN map1 : map1[k] = map2[k]

\* C16: three windows with distinct birthdays, enabled in any order, their
\* hello and welcome messages received in any order: once all are enabled and
\* no message is under way, the mapping of every window numbers the windows
\* by birthday and its own number is its rank.
C16_Convergence ==
    ((\A m \in Windows : wstatus[m] = "enabled") /\ channel = {}) =>
        \A m \in Windows :
            /\ DOMAIN windowNumbersToPeerNames[m] = 1..3
            /\ \A x \in Windows : windowNumbersToPeerNames[m][Rank(x, Windows)] = x
            /\ windowNumber[m] = Rank(m, Windows)

\* The three windows have converged, the oldest having learnt of the youngest
\* before it learnt of the second.
C16_Witness ==
    /\ \A m \in Windows : wstatus[m] = "enabled"
    /\ channel = {}
    /\ Len(peerNamesToBirthdays["w1"]) = 3
    /\ peerNamesToBirthdays["w1"][2][1] = "w3"
    /\ windowNumbersToPeerNames["w1"][3] = "w3"

C17_Step ==
    \A msg \in channel :
        LET m == msg.to
            map == windowNumbersToPeerNames[m]
        IN  ( /\ msg.type = "observeDeparture"
              /\ wstatus[m] = "enabled"
              /\ DOMAIN map = 1..3
              /\ map[2] = msg.name
              /\ Receive(msg) )
            => ( /\ DOMAIN windowNumbersToPeerNames'[m] = 1..2
                 /\ windowNumbersToPeerNames'[m][1] = map[1]
                 /\ windowNumbersToPeerNames'[m][2] = map[3]
                 /\ Len(peerNamesToBirthdays'[m]) = 2
                 /\ map[1] = m => windowNumber'[m] = 1
                 /\ map[3] = m => windowNumber'[m] = 2 )

\* C17: a window whose mapping is {1: x, 2: y, 3: z} and that observes the
\* departure of y has the mapping {1: x, 2: z} afterwards, two members, and
\* the number 2 itself if it is z.
C17_DepartureRenumbers == [][C17_Step]_vars

\* The youngest of three windows has observed the departure of the second:
\* number 2 was deleted and its own number went from 3 to 2.
C17_Witness ==
    \E m \in Windows :
        /\ lastEvent[m].deletedNumber = <<2>>
        /\ DOMAIN lastEvent[m].numberUpdates = {3}
        /\ lastEvent[m].numberUpdates[3] = 2
        /\ windowNumber[m] = 2
        /\ DOMAIN windowNumbersToPeerNames[m] = 1..2
        /\ windowNumbersToPeerNames[m][2] = m

\* C18: at every window the mapping is a bijection between 1..N and the N
\* recorded names, ordered by recorded birthday; number 1 is held by the
\* member with the smallest birthday.
C18_DenseByBirthday ==
    \A m \in Windows :
        LET map == windowNumbersToPeerNames[m] IN
        /\ DOMAIN map = 1..Cardinality(Members(m))
        /\ {map[k] : k \in DOMAIN map} = Members(m)
        /\ \A k, l \in DOMAIN map :
              k < l => StrLess(RecordedBirthday(m, map[k]), RecordedBirthday(m, map[l]))
        /\ \A x \in Members(m) :
              x # map[1] => StrLess(RecordedBirthday(m, map[1]), RecordedBirthday(m, x))

\* A window that learnt of three members youngest first and numbers them
\* oldest first.
C18_Witness ==
    \E m \in Windows :
        /\ Len(peerNamesToBirthdays[m]) = 3
        /\ peerNamesToBirthdays[m][1][1] = "w3"
        /\ windowNumbersToPeerNames[m][1] = "w1"
        /\ windowNumbersToPeerNames[m][3] = "w3"

\* C19: two windows that hold the same set of records, with distinct
\* birthdays, have the same mapping, in whatever order each learnt them.
C19_SameRecordsSameMapping ==
    \A m1, m2 \in Windows :
        ( /\ Records(m1) = Records(m2)
          /\ \A r1, r2 \in Records(m1) : r1 # r2 => r1[2] # r2[2] )
        => SameMapping(windowNumbersToPeerNames[m1], windowNumbersToPeerNames[m2])

\* Two windows hold the same three records, learnt in different orders, and
\* the same mapping.
C19_Witness ==
    \E m1, m2 \in Windows :
        /\ Cardinality(Records(m1)) = 3
        /\ Records(m1) = Records(m2)
        /\ peerNamesToBirthdays[m1] # peerNamesToBirthdays[m2]
        /\ SameMapping(windowNumbersToPeerNames[m1], windowNumbersToPeerNames[m2])

C21_Step ==
    lastWindowCall'.n # lastWindowCall.n =>
        LET c == lastWindowCall'
            m == c.window
            unknown == c.number # <<>>
                       /\ c.number[1] \notin DOMAIN windowNumbersToPeerNames[m]
            noGroup == c.number = <<>> /\ windowGroupId[m] = <<>>
        IN  /\ unknown => c.threw = <<"UnknownPeerError">>
            /\ noGroup => c.threw = <<"NoGroupError">>
            /\ c.threw # <<>> =>
                  /\ channel' = channel
                  /\ windowPeerVars' = windowPeerVars

\* C21: lookUpPeerName, makeWindowRequest and sendWindowEvent with a window
\* number that is not in the mapping throw UnknownPeerError, a groupcast
\* while windowGroupId is unset throws NoGroupError, and a call that throws
\* emits nothing, takes no sequence number and stores no pending entry.
C21_FailuresLeaveNoTrace == [][C21_Step]_vars

\* A joined window that has made a request fails to make a second one, to a
\* number that is not in its mapping.
C21_Witness ==
    /\ lastWindowCall.op = "makeWindowRequest"
    /\ lastWindowCall.threw = <<"UnknownPeerError">>
    /\ lastWindowCall.mapping # <<>>
    /\ windowNextSeqNum[lastWindowCall.window] = 1

\* A step in which the application calls sendWindowEvent or groupcastEvent.
SendsWindowEvent ==
    /\ lastWindowCall'.n # lastWindowCall.n
    /\ lastWindowCall'.op \in {"sendWindowEvent", "groupcastEvent"}

\* Sending an event leaves the sequence numbers and the pending entries of
\* the WindowPeer and of ext_client of its transport as they were.
C22_OriginalStep ==
    SendsWindowEvent =>
        /\ windowNextSeqNum' = windowNextSeqNum
        /\ windowRequests' = windowRequests
        /\ extNextSeqNum' = extNextSeqNum
        /\ extRequests' = extRequests

C22_NoCorrelationStateAnywhere == [][C22_OriginalStep]_vars

C22_Step ==
    /\ SendsWindowEvent =>
          LET c == lastWindowCall'
              m == c.window
              t == TakeNextSeqNum(extNextSeqNum[m])
          IN  /\ windowNextSeqNum' = windowNextSeqNum
              /\ windowRequests' = windowRequests
              /\ windowCalls' = windowCalls
              /\ c.threw # <<>> =>
                    /\ extNextSeqNum' = extNextSeqNum
                    /\ extRequests' = extRequests
                    /\ wire' = wire
              /\ c.threw = <<>> =>
                    /\ extNextSeqNum' = [extNextSeqNum EXCEPT ![m] = t.next]
                    /\ \A x \in Windows \ {m} : extRequests'[x] = extRequests[x]
                    /\ t.seqNum \notin DOMAIN extRequests[m]
                    /\ DOMAIN extRequests'[m] = DOMAIN extRequests[m] \cup {t.seqNum}
                    /\ \E w \in wire' \ wire :
                          /\ wire' = wire \cup {w}
                          /\ w.type = "request" /\ w.to = ServerName
                          /\ w.from = m /\ w.seqNum = t.seqNum
                          /\ w.handlerDescrip = <<"sendWindowEvent">>
                          /\ w.args.event = c.event[1]
    /\ (\E m \in Windows : DOMAIN extRequests'[m] # DOMAIN extRequests[m]
                           /\ DOMAIN extRequests'[m] \subseteq DOMAIN extRequests[m]) =>
          /\ lastWindowCall' = lastWindowCall
          /\ windowNextSeqNum' = windowNextSeqNum
          /\ windowRequests' = windowRequests
          /\ windowCalls' = windowCalls
          /\ dispatched' = dispatched

\* C22: sendWindowEvent and groupcastEvent take no sequence number and store
\* no pending entry on the WindowPeer; over ExtensionTransport a call that
\* does not throw is one request of ext_client to the server, which takes the
\* next sequence number of ext_client and stores one pending entry under it,
\* and the response that removes the entry tells the WindowPeer nothing.
C22_CorrelationOnlyOnExtClient == [][C22_Step]_vars

\* A joined window has sent an event over ExtensionTransport and the entry
\* of the request that carried it is pending on ext_client.
C22_Witness ==
    /\ lastWindowCall.n = 1
    /\ lastWindowCall.op = "groupcastEvent"
    /\ lastWindowCall.threw = <<>>
    /\ \E k \in DOMAIN extRequests[lastWindowCall.window] :
          \E w \in wire : /\ w.type = "request" /\ w.seqNum = k
                          /\ w.from = lastWindowCall.window
                          /\ w.handlerDescrip = <<"sendWindowEvent">>
    /\ windowNextSeqNum[lastWindowCall.window] = 0

\* The windows the caller of the last call knew of when it made the call.
KnownToCaller ==
    {lastWindowCall.mapping[k] : k \in DOMAIN lastWindowCall.mapping}

\* C23: a groupcast with includeSelf false never reaches the listeners of
\* the sender and one with includeSelf true or left out does; either reaches
\* the listeners of every other member, once nothing is left in flight.
C23_IncludeSelfHonoured ==
    LET c == lastWindowCall
        quiet == wire = {} /\ channel = {}
    IN  (c.n > 0 /\ c.op \in {"sendWindowEvent", "groupcastEvent"}
             /\ c.number = <<>> /\ c.threw = <<>>) =>
            /\ c.includeSelf = <<FALSE>> => c.event[1] \notin dispatched[c.window]
            /\ (c.includeSelf # <<FALSE>> /\ quiet) => c.event[1] \in dispatched[c.window]
            /\ quiet => \A x \in KnownToCaller \ {c.window} :
                            c.event[1] \in dispatched[x]

\* ------------------------------------------------------------------------
\* getAllWindowNumbers

\* C24: getAllWindowNumbers() returns every number of the mapping once, in
\* increasing numeric order, whatever the size of the group.
C24_NumbersIncreasing ==
    lastNumbers.n = 1 =>
        LET A == lastNumbers.numbers
        IN  /\ {A[i] : i \in DOMAIN A} = DOMAIN lastNumbers.mapping
            /\ Len(A) = Cardinality(DOMAIN lastNumbers.mapping)
            /\ \A i, j \in DOMAIN A : i < j => A[i] < A[j]

\* ------------------------------------------------------------------------
\* Serializable errors

\* C25: reconstituteError(new Error(e.serialize())) is an instance of the
\* class of e with the name, the message and the properties of e, for every
\* instance e of a class of KNOWN_ERROR_CLASSES.
C25_SerializeRoundTrip ==
    (settlement.kind # "none" /\ settlement.reconstituteErrors
         /\ thrown.name \in KNOWN_ERROR_CLASSES) =>
        /\ settlement.kind = "rejected"
        /\ settlement.error = thrown

\* The message carries no tag of KNOWN_ERROR_CLASSES: it is not JSON, or the
\* JSON of something without such a tag.
Untagged(reason) ==
    \/ JsonParse(reason) = <<>>
    \/ LET name == Get(JsonParse(reason)[1], "_error_class_name")
       IN  ~(name.t = "string" /\ name.v \in KNOWN_ERROR_CLASSES)

\* reconstituteError does not throw, and returns the error it is given when
\* the message of the error carries no known tag.
C26_NeverThrows ==
    rejectionReason # <<>> =>
        LET error == PlainError(rejectionReason[1])
            r == ReconstituteError(error)
        IN  /\ ~r.threw
            /\ Untagged(rejectionReason[1]) => r.e = error

\* A peer whose reconstituteErrors is false rejects the request that failed
\* with a plain Error whose message is rejection_reason.
C26_PlainRejection ==
    (settlement.kind # "none" /\ ~settlement.reconstituteErrors) =>
        /\ settlement.kind = "rejected"
        /\ settlement.error = PlainError(settlement.reason)

\* C26: reconstituteError never throws and returns the given error for a
\* message that is not JSON or has no known tag, and a peer that does not
\* reconstitute errors rejects a failed request with Error(rejection_reason).
C26_FallbackToGenericError == C26_NeverThrows /\ C26_PlainRejection

\* ------------------------------------------------------------------------
\* ExtensionServer and ExtensionClient on a host page

\* C27: at most one ExtensionServer on the page has messaging activated.
C27_OneServerActive == Cardinality(Listening) <= 1

\* A checkExtensionPresence call that is pending has a timer that will
\* settle it.
C28_Settles ==
    /\ DOMAIN clientRequests = {k \in DOMAIN checks : checks[k].kind = "pending"}
    /\ \A k \in DOMAIN clientRequests : clientRequests[k] >= 1
    /\ \A k \in DOMAIN checks : checks[k].kind # "threw"

\* C28: checkExtensionPresence with selfRepairing true always settles, and
\* when it rejects, for an ExtensionUnavailableError or for a timeout, the
\* signalling element has no mark of the extension.
C28_RejectionErasesPresence ==
    /\ C28_Settles
    /\ \A k \in DOMAIN checks :
          (checks[k].selfRepairing /\ checks[k].kind = "rejected") =>
              checks[k].attrThen = <<>>

\* ------------------------------------------------------------------------
\* C29

\* The outcome of makeRequest(descrip, args) made by a peer of a peer
\* holding the handlers of the endpoints, with no relay between them.
DirectOutcome(descrip, args) ==
    LET S0 == [calls |-> <<>>, reqs |-> EmptyMap, timers |-> {}, out |-> {}]
        r == MakeRequestResult(S0, "p", 0, "b", descrip, args, FALSE, 0)
        w == CHOOSE x \in r.S.out : TRUE
        answers == Answer(EndpointHandlers, "b", w)
    IN  IF answers = {} THEN NoOutcome
        ELSE HandleResponse([r.S EXCEPT !.out = {}], "p",
                            CHOOSE a \in answers : TRUE).calls[1].outcome

\* The peer of the relay that forwards the requests of endpoint e.
ForwarderOf(e) == IF e = "P" THEN "csBgsPeer" ELSE "psCsPeer"

\* The calls of the relay that forward call i of endpoint e.
ForwardsOf(e, i) ==
    {j \in DOMAIN forwarded[ForwarderOf(e)] :
        forwarded[ForwarderOf(e)][j] =
            [peerName |-> RelayName(e), seqNum |-> relayCalls[e][i].seqNum]}

\* C29: a request of P to the name of B, or of B to the name of P, is
\* forwarded once, with its descriptor and args, to the other endpoint, and
\* the promise settles as the promise of the same request made directly
\* does: with the value the handler returned or with the message it
\* rejected with, under the sequence number of the request of the endpoint
\* whatever number the relay gave its own request; once no message is
\* under way every request that settles directly has settled.
C29_SettlesAsDirect ==
    \A e \in Endpoints : \A i \in DOMAIN relayCalls[e] :
        LET c == relayCalls[e][i]
            direct == DirectOutcome(c.descrip, c.args)
        IN  /\ c.outcome \in {NoOutcome, direct}
            /\ (pageLink = {} /\ portLink = {}) => c.outcome = direct
            /\ c.outcome.kind # "none" =>
                 /\ Cardinality(ForwardsOf(e, i)) = 1
                 /\ \A j \in ForwardsOf(e, i) :
                      LET f == relayCalls[ForwarderOf(e)][j]
                      IN  f.descrip = c.descrip /\ f.args = c.args
                            /\ f.outcome = c.outcome
                 /\ c.descrip = <<"echo">> =>
                      c.outcome = [kind |-> "resolved", val |-> <<c.args>>]
                 /\ c.descrip = <<"reject">> =>
                      c.outcome = [kind |-> "rejected", val |-> <<"boom">>]

\* Two requests of one endpoint were under way together, the relay
\* forwarded them under numbers other than their own, and both have
\* settled, one resolved and one rejected; a request of the other endpoint
\* has settled too.
C29_Witness ==
    \E e \in Endpoints :
        /\ Len(relayCalls[e]) = 2
        /\ relayCalls[e][1].outcome.kind = "resolved"
        /\ relayCalls[e][2].outcome.kind = "rejected"
        /\ \A i \in {1, 2} : \A j \in ForwardsOf(e, i) :
              relayCalls[ForwarderOf(e)][j].seqNum # relayCalls[e][i].seqNum
        /\ \E o \in Endpoints \ {e} :
              /\ Len(relayCalls[o]) = 1
              /\ relayCalls[o][1].outcome.kind # "none"

\* ------------------------------------------------------------------------
\* C30

\* C30: whatever the transport and however often the observer has joined,
\* handling the hello of another member adds the member and emits exactly
\* one welcome, addressed to it and carrying the name and the birthday of
\* the observer, and handling its own hello emits none.
C30_OneWelcomePerHello ==
    lastHello.n > 0 =>
        /\ lastHello.added
        /\ IF lastHello.name = lastHello.me
           THEN lastHello.welcomes = <<>>
           ELSE /\ Len(lastHello.welcomes) = 1
                /\ \A k \in DOMAIN lastHello.welcomes :
                      /\ lastHello.welcomes[k].to = lastHello.name
                      /\ lastHello.welcomes[k].from = lastHello.me
                      /\ lastHello.welcomes[k].birthday = ObserverBirthday

\* ------------------------------------------------------------------------
\* C31

\* JSON.stringify of the fields ExtensionUnavailableError.serialize() writes
\* for the error checkHandlingError makes.
C31_SerializedUnavailable ==
    JsonText("_error_class_name" :> JsString("ExtensionUnavailableError")
                 @@ "message" :> JsString(ContextInvalidated))

C31_Step ==
    /\ \A w \in pageMessages' \ pageMessages :
          (w.type = "response" /\ w.rejection_reason # <<>>) =>
              /\ w.rejection_reason = <<C31_SerializedUnavailable>>
              /\ extVersAttr' = <<>>
              /\ \E s \in ContentScripts :
                    /\ ~server[s].valid /\ server[s].status = "active"
                    /\ server'[s].status = "deactivated"
              /\ \A s \in ContentScripts : ~server[s].valid => server'[s].status # "active"
    /\ \A s \in ContentScripts :
          server[s].status = "deactivated" => server'[s].status = "deactivated"
    /\ (\E w \in pageMessages' \ pageMessages : w.type = "response") => Listening # {}
    /\ \A w \in pageMessages \ pageMessages' :
          (/\ w.type = "response" /\ w.rejection_reason # <<>>
           /\ w.seqNum \in DOMAIN clientRequests) =>
              /\ checks'[w.seqNum].kind = "rejected"
              /\ checks'[w.seqNum].error =
                     ErrorObject("ExtensionUnavailableError", Text(ContextInvalidated))

\* C31: an ExtensionServer whose handler fails with 'Extension context
\* invalidated.' deactivates its messaging and erases the mark of the
\* extension in the step in which it replies, the rejection_reason of the
\* reply is the serialization of an ExtensionUnavailableError, the client
\* rejects the pending request with an ExtensionUnavailableError carrying
\* that message, and the server stays deactivated: it answers no request
\* dispatched afterwards.
C31_InvalidatedServerRetires == [][C31_Step]_vars

\* A server has retired, the client's first check was rejected with the
\* ExtensionUnavailableError, and the request of a second check has been
\* dispatched and has found no server: it is pending with no message left.
C31_Witness ==
    /\ \E s \in ContentScripts : server[s].status = "deactivated"
    /\ Listening = {}
    /\ pageMessages = {}
    /\ \E k1, k2 \in DOMAIN checks :
          /\ k1 < k2
          /\ checks[k1].kind = "rejected"
          /\ checks[k1].error.name = "ExtensionUnavailableError"
          /\ checks[k2].kind = "pending"

\* ------------------------------------------------------------------------
\* makeRequest over a transport that answers or fails at once

\* C32: the pending entry is stored and the timer armed before the envelope
\* is handed to the transport: a request that is under way has its entry
\* until its promise settles, and a call whose response was delivered
\* inside postMessageAsPeer is resolved with that response, its entry
\* deleted and its timer cleared.
C32_EntryBeforePost ==
    /\ \A w \in sendWire : w.type = "request" =>
          \E i \in DOMAIN sendCalls :
              /\ sendCalls[i].seqNum = w.seqNum
              /\ \/ w.seqNum \in DOMAIN sendRequests
                 \/ sendCalls[i].outcome.kind # "none"
    /\ \A i \in DOMAIN sendCalls : sendHow[i] = "answers" =>
          /\ sendCalls[i].outcome = [kind |-> "resolved", val |-> <<sendCalls[i].args>>]
          /\ sendCalls[i].seqNum \notin DOMAIN sendRequests
          /\ \A t \in sendTimers : t.id # i

\* A request made with a timeout was answered inside postMessageAsPeer
\* while an earlier request was still pending.
C32_Witness ==
    /\ Len(sendCalls) = 2
    /\ sendHow[2] = "answers"
    /\ sendCalls[2].timeout > 0
    /\ sendCalls[2].outcome.kind = "resolved"
    /\ sendCalls[1].outcome.kind = "none"
    /\ sendCalls[1].seqNum \in DOMAIN sendRequests

\* C33: requestsBySeqNum has no entry for a request whose promise has
\* settled, by whichever route it settled.
C33_NoEntryOnceSettled ==
    \A i \in DOMAIN sendCalls :
        sendCalls[i].outcome.kind # "none" =>
            sendCalls[i].seqNum \notin DOMAIN sendRequests

\* C34: a call that a response settled was settled by a response from the
\* peer the request was addressed to.
C34_SettledByAddressee ==
    \A i \in DOMAIN sendCalls :
        settledBy[i] # <<>> => settledBy[i] = <<sendCalls[i].to>>

\* ------------------------------------------------------------------------
\* Departure

\* The names in the mapping of window m.
Mapped(m) == {windowNumbersToPeerNames[m][k] : k \in DOMAIN windowNumbersToPeerNames[m]}

\* No hello, welcome or observeDeparture is under way and no window that
\* remains has a departed window among its members or in its mapping.
DepartedForgotten ==
    (\A msg \in channel : msg.type \notin {"hello", "welcome", "observeDeparture"}) =>
        \A d \in Windows : wstatus[d] = "departed" =>
            \A m \in Windows : wstatus[m] = "enabled" =>
                d \notin Members(m) /\ d \notin Mapped(m)

OwnRecord == HasEntry(member.peerNamesToBirthdays, member.name)

\* C36: after any joins, hellos, welcomes and departures, getWindowNumber()
\* of a WindowPeer is 0 or a number its mapping gives its own name, and it is
\* 0 exactly when the record of the peer is not among its members.
C36_NumberIsOwn ==
    /\ \/ member.windowNumber = 0
       \/ /\ member.windowNumber \in DOMAIN member.windowNumbersToPeerNames
          /\ member.windowNumbersToPeerNames[member.windowNumber] = member.name
    /\ member.windowNumber = 0 <=> ~OwnRecord

\* The number map m gives name.
NumberOf(m, name) == CHOOSE k \in DOMAIN m : m[k] = name
\* The names map m numbers.
Numbered(m) == {m[k] : k \in DOMAIN m}

\* The numberUpdates that describe the change from mapping old to mapping
\* new: old number to new number, for the names in both whose number differs.
UpdatesBetween(old, new) ==
    LET changed == {x \in Numbered(old) \cap Numbered(new) :
                       NumberOf(old, x) # NumberOf(new, x)}
    IN  [o \in {NumberOf(old, x) : x \in changed} |->
            NumberOf(new, CHOOSE x \in changed : NumberOf(old, x) = o)]

\* The deletedNumber that describes it: the old number of the name removed,
\* null when none was.
DeletedBetween(old, new) ==
    LET removed == Numbered(old) \ Numbered(new)
    IN  IF removed = {} THEN <<>>
        ELSE <<NumberOf(old, CHOOSE x \in removed : TRUE)>>

\* The last request handled dispatched an updateMapping event.
ChangeDispatched == lastChange.n = 1 /\ member.lastEvent.n = 1

\* C37: the updateMapping event describes the change of the mapping exactly:
\* numberUpdates is old number to new number for the members before and after
\* whose number changed, deletedNumber the old number of the member removed
\* or null.
C37_EventDescribesChange ==
    ChangeDispatched =>
        /\ Cardinality(Numbered(lastChange.mapping)
                           \ Numbered(member.lastEvent.mapping)) <= 1
        /\ member.lastEvent.numberUpdates
               = UpdatesBetween(lastChange.mapping, member.lastEvent.mapping)
        /\ member.lastEvent.deletedNumber
               = DeletedBetween(lastChange.mapping, member.lastEvent.mapping)

\* A member has left whose departure moved the numbers of those who remain.
C37_Witness ==
    /\ ChangeDispatched
    /\ lastChange.type = "observeDeparture"
    /\ member.lastEvent.deletedNumber # <<>>
    /\ DOMAIN member.lastEvent.numberUpdates # {}

\* C38: portsByPeerName of a CsBgsPeer has an entry for a peer name whenever
\* a port for that peer is connected: the disconnect event of an older port
\* does not remove the entry of a newer live port.
C38_LivePortMapped ==
    \A k \in DOMAIN csPorts :
        csPorts[k].status = "connected" =>
            csPorts[k].peer \in DOMAIN csPortsByPeerName

\* C39: a dispatch that has returned has invoked every callback that was
\* registered for the type when it began exactly once, in the order of
\* registration, whatever callbacks called off during it.
C39_EveryCallbackOnce ==
    dispatching.stage = "done" => dispatching.invoked = dispatching.registered

\* The same of Listenable.dispatch alone, which iterates a copy.
ListenableEveryCallbackOnce ==
    (dispatching.stage = "done" /\ dispatching.class = "Listenable")
        => dispatching.invoked = dispatching.registered

\* The runs of handleRequest on a peer that is not ready which found a
\* registered handler other than the built-in `ready`.
HandledBeforeReady ==
    {inv \in handled : ~ready[inv.at] /\ inv.handler.t = "fn"
                           /\ inv.handler.beh # "ready"}

\* The request of run inv has its response, or the promise its handler
\* returned is pending and the response follows when it settles.
AnsweredOrPending(inv) ==
    \/ inv \in running
    \/ \E w \in sent : w.to = inv.from /\ w.from = inv.at /\ w.seqNum = inv.seqNum

\* C40: readiness gates the built-in `ready` handler only: on a peer on which
\* setReady() has not been called, a request for any other registered
\* handler is looked up, the handler is invoked and the request is answered.
C40_AnsweredBeforeReady ==
    \A inv \in HandledBeforeReady : AnsweredOrPending(inv)

\* The same for the handlers that do not throw synchronously.
AnsweredBeforeReadyUnlessThrown ==
    \A inv \in HandledBeforeReady : inv.handler.beh # "throw" => AnsweredOrPending(inv)

\* A peer that is not ready has answered a request for a registered handler.
AnsweredBeforeReadyReached ==
    \E inv \in HandledBeforeReady :
        \E w \in sent : w.to = inv.from /\ w.from = inv.at /\ w.seqNum = inv.seqNum

====
